---- MODULE Spec2Model ----
(***************************************************************************)
(* Model of the player-movement controller of dylemma/platformer.          *)
(*                                                                         *)
(*   util/timers.rs          FrameCount, Cooldown, CapacitiveFlag          *)
(*   util/side.rs            Side, YSide, SideMap                          *)
(*   util/walls.rs           WallSensors, PlayerWallControlState           *)
(*   player/control_state.rs PlayerControlState, TemporaryForce            *)
(*   player/system.rs        player_system, compute_next_horizontal_...    *)
(*                                                                         *)
(* f32 velocities are modelled as integers: every velocity and parameter   *)
(* is a whole multiple of one velocity quantum, so the additions,          *)
(* subtractions and comparisons of the code are exact in the model.        *)
(***************************************************************************)
EXTENDS Integers, Sequences, FiniteSets, TLC

VARIABLES
    cooldown,      \* a Cooldown (timers.rs:28): its FrameCount
    cd_duration,   \* history: the D of the latest reset(D), NoReset before any
    cd_ticks,      \* history: tick() calls since the latest reset (or creation)
    flag,          \* a CapacitiveFlag (timers.rs:50): [value, time_since_released]
    flag_fed,      \* history: the values passed to CapacitiveFlag::tick, oldest first
    wall_sensors,  \* a WallSensors (walls.rs:192): hits of the 4 probes, per side
    solver,        \* compute_next_horizontal_velocity driven repeatedly
    player,        \* the PlayerControlState (control_state.rs:7), less wall_sensors
    params,        \* the loaded PlayerControlParams asset (control_params.rs:6)
    obs,           \* history: what the latest tick of player_system did
    wall_control,  \* a PlayerWallControlState (walls.rs:37): its wall_state
    wall_params,   \* the PlayerWallControlParams handed to its tick
    wall_obs,      \* history: what the latest PlayerWallControlState::tick saw and did
    wj_obs,        \* history: jump presses and wall jumps of the ticks of player_system
    asset,         \* Assets<PlayerControlParams>.get(handle): None until loaded
    controller,    \* KinematicCharacterController.translation: Option<Vec2>
    asset_obs,     \* history: what the latest tick found and the state it started from
    move_obs,      \* history: the vertical velocity a tick started from, and its wall state
    collide,       \* the collision loop of player_system driven on its own
    tforce,        \* a TemporaryForce (control_state.rs:56) with its decay curve
    collider,      \* the shape of the player's Collider component
    panicked,      \* whether player_system has panicked
    crash_obs,     \* history: the state the latest tick started from
    reload_obs,    \* history: the asset the latest tick started with, and its state
    jump_obs       \* history: presses, jumps and airborne ticks counted over the ticks

vars == <<cooldown, cd_duration, cd_ticks, flag, flag_fed, wall_sensors, solver,
          player, params, obs, wall_control, wall_params, wall_obs, wj_obs,
          asset, controller, asset_obs, move_obs, collide, tforce, collider,
          panicked, crash_obs, reload_obs, jump_obs>>

(***************************************************************************)
(* Bounds of the model.                                                    *)
(***************************************************************************)
MaxDuration == 9      \* largest duration passed to Cooldown::reset
MaxCdTicks == 12      \* tick() calls followed after one reset
MaxFlagTicks == 7     \* CapacitiveFlag::tick calls followed
MaxVel == 6           \* largest starting |velocity| handed to the solver
MaxSpeedParam == 4    \* largest max_speed handed to the solver
MaxAccelParam == 3    \* largest acceleration / deceleration handed to the solver
MaxTicks == 4         \* ticks of player_system followed
MaxPushAway == 2      \* largest push_away_duration handed to the wall machine
MaxWallJumpTicks == 4 \* ticks of player_system followed around a wall jump
MaxAssetTicks == 3    \* ticks of player_system followed around the asset load
MaxCrashTicks == 3    \* ticks of player_system followed while the collider may change
MaxReloadTicks == 3   \* ticks of player_system followed while the asset is reloaded
MaxReloads == 2       \* reloads of the params asset followed
MaxCollideVel == 2    \* largest small |own_velocity| component handed to the collision loop
MaxCollisions == 2    \* collisions reported to one pass of the collision loop
MaxForceDuration == 3 \* largest duration of a force decay curve
MaxForceCalls == 5    \* calls of TemporaryForce::tick and reset followed
MaxForce == 4         \* largest |component| of the peak handed to TemporaryForce::reset
MaxMoveTicks == 4     \* ticks of player_system followed on and off a wall
MaxClimbTicks == 4    \* ticks of player_system followed on and off a ledge
MaxJumpTicks == 4     \* ticks of player_system followed while presses and jumps are counted

(***************************************************************************)
(* util/timers.rs: FrameCount                                              *)
(***************************************************************************)
\* usize::MAX. TLC's integers are 32 bits wide, so the model takes the
\* largest value TLC holds; no duration or tick count of the model gets
\* near it, and increment saturates at it as the code does at usize::MAX.
UsizeMax == 2147483647

FrameCountIncrementStuck(n) == n

FrameCountIncrement(n) == IF n = UsizeMax THEN UsizeMax ELSE n + 1

FrameCountDecrementTwice(n) == IF n <= 1 THEN 0 ELSE n - 2

FrameCountDecrement(n) == IF n = 0 THEN 0 ELSE n - 1

(***************************************************************************)
(* util/timers.rs: Cooldown                                                *)
(***************************************************************************)
CooldownDefault == 0

CooldownReset(duration) == duration

CooldownTick(c) == FrameCountDecrement(c)

\* the cooldown was called ready one tick early
CooldownIsReadyEarly(c) == c <= 1

CooldownIsReady(c) == c = 0

(***************************************************************************)
(* util/timers.rs: CapacitiveFlag                                          *)
(***************************************************************************)
CapacitiveFlagDefault == [value |-> FALSE, time_since_released |-> UsizeMax]

\* the flag restarted its timer on every cleared tick
CapacitiveFlagTickAlwaysCounts(f, value) ==
    IF value
    THEN [value |-> TRUE, time_since_released |-> 0]
    ELSE [value |-> FALSE,
          time_since_released |-> FrameCountIncrement(f.time_since_released)]

CapacitiveFlagTick(f, value) ==
    IF value
    THEN [value |-> TRUE, time_since_released |-> 0]
    ELSE [value |-> FALSE,
          time_since_released |->
              IF ~f.value
              THEN FrameCountIncrement(f.time_since_released)
              ELSE f.time_since_released]

IsSet(f) == f.value

\* only the tick of the press itself counted: nothing was buffered
WasSetWithinOnlyHeld(f, duration) == f.value /\ duration >= 0

\* the comparison was strict: time_since_released < duration
WasSetWithinStrict(f, duration) == f.time_since_released < duration

WasSetWithin(f, duration) == f.time_since_released <= duration

(***************************************************************************)
(* util/side.rs: Side, YSide                                               *)
(***************************************************************************)
Side == {"Left", "Right"}

YSide == {"Up", "Down"}

\* Option<Side> / Option<YSide>: "None" stands for Option::None
OptSide == Side \cup {"None"}

OptYSide == YSide \cup {"None"}

\* impl Neg for Side
NegSide(side) == IF side = "Left" THEN "Right" ELSE "Left"

\* impl Mul<Side> for f32: Right keeps the value, Left negates it
MulSide(x, side) == IF side = "Right" THEN x ELSE -x

(***************************************************************************)
(* util/walls.rs: WallSensors                                              *)
(***************************************************************************)
NumSensors == 4

SensorIndex == 1 .. NumSensors

\* WallSensors::default(): four sensors, no hit recorded on either side
WallSensorsDefault == [i \in SensorIndex |-> [s \in Side |-> FALSE]]

\* what the eight ray casts of one update return
RayCasts == [SensorIndex -> [Side -> BOOLEAN]]

\* WallSensors::update: sensor.hits[side] = cast_ray(..).is_some()
WallSensorsUpdate(ws, rays) == [i \in SensorIndex |-> [s \in Side |-> rays[i][s]]]

\* 1 << i
Shl(i) == 2 ^ i

\* the probes were numbered from the top: the top probe as the lowest bit
HitFlagsTopFirst(ws, side) ==
    LET bit(i) == IF ws[i][side] THEN Shl(NumSensors - i) ELSE 0
    IN  bit(1) + bit(2) + bit(3) + bit(4)

\* hit_flags of WallSensors::interpret: bit i (from 0) is sensor i, the
\* bottom sensor the least significant; sensor i of the code is ws[i + 1]
HitFlags(ws, side) ==
    LET bit(i) == IF ws[i][side] THEN Shl(i - 1) ELSE 0
    IN  bit(1) + bit(2) + bit(3) + bit(4)

WallSensorResult == {"NotAWall", "Step", "Ledge", "Wall"}

Interpret(ws, side) ==
    LET hit_flags == HitFlags(ws, side)
    IN  CASE hit_flags = 1  -> "Step"
          [] hit_flags = 3  -> "Ledge"
          [] hit_flags = 7  -> "Wall"
          [] hit_flags = 15 -> "Wall"
          [] hit_flags = 14 -> "Wall"
          [] OTHER -> "NotAWall"

(***************************************************************************)
(* player/system.rs: compute_next_horizontal_velocity                      *)
(***************************************************************************)
Abs(x) == IF x < 0 THEN -x ELSE x

\* f32::signum: 1.0 for a positive number and +0.0, -1.0 for a negative one.
\* Used where the argument is nonzero, or where the result is multiplied by
\* 0 (goal_delta = 0 reaches the multiplication only with accel_base = 0).
Signum(x) == IF x >= 0 THEN 1 ELSE -1

TargetVel(input_direction, hp) ==
    CASE input_direction = "None"  -> 0
      [] input_direction = "Left"  -> -hp.max_speed
      [] input_direction = "Right" -> hp.max_speed

\* target_vel.signum(): -max_speed of max_speed = 0.0 is -0.0, whose signum
\* is -1.0, so for max_speed >= 0 the sign is the side's
TargetSignum(input_direction, hp) ==
    IF hp.max_speed = 0
    THEN (IF input_direction = "Left" THEN -1 ELSE 1)
    ELSE Signum(TargetVel(input_direction, hp))

\* the speed test was made before the direction test: a player at or above
\* max_speed never turns around
AccelBaseSpeedFirst(current_vel, input_direction, hp) ==
    IF current_vel = 0 THEN hp.acceleration
    ELSE IF input_direction = "None" THEN hp.deceleration
    ELSE IF hp.max_speed > Abs(current_vel)
         THEN (IF TargetSignum(input_direction, hp) # Signum(current_vel)
               THEN hp.deceleration ELSE hp.acceleration)
    ELSE 0

\* a player above max_speed was slowed down to the cap
AccelBaseNoMomentum(current_vel, input_direction, hp) ==
    IF current_vel = 0 THEN hp.acceleration
    ELSE IF input_direction = "None" THEN hp.deceleration
    ELSE IF TargetSignum(input_direction, hp) # Signum(current_vel)
         THEN hp.deceleration
    ELSE IF hp.max_speed > Abs(current_vel) THEN hp.acceleration
    ELSE hp.deceleration

AccelBase(current_vel, input_direction, hp) ==
    IF current_vel = 0 THEN hp.acceleration
    ELSE IF input_direction = "None" THEN hp.deceleration
    ELSE IF TargetSignum(input_direction, hp) # Signum(current_vel)
         THEN hp.deceleration
    ELSE IF hp.max_speed > Abs(current_vel) THEN hp.acceleration
    ELSE 0

\* the snap to target_vel was left out: always step by accel_base
ComputeNextHorizontalVelocityNoSnap(current_vel, input_direction, hp) ==
    LET target_vel == TargetVel(input_direction, hp)
        accel_base == AccelBase(current_vel, input_direction, hp)
        goal_delta == target_vel - current_vel
    IN  current_vel + accel_base * Signum(goal_delta)

ComputeNextHorizontalVelocity(current_vel, input_direction, hp) ==
    LET target_vel == TargetVel(input_direction, hp)
        accel_base == AccelBase(current_vel, input_direction, hp)
        goal_delta == target_vel - current_vel
    IN  IF Abs(goal_delta) < accel_base
        THEN target_vel
        ELSE current_vel + accel_base * Signum(goal_delta)

(***************************************************************************)
(* util/walls.rs: PlayerWallControlState                                   *)
(*                                                                         *)
(* An Option<T> that holds a record is a sequence: << >> is None and       *)
(* <<x>> is Some(x).                                                       *)
(***************************************************************************)
None == << >>

Some(x) == <<x>>

IsSome(o) == o # << >>

Unwrap(o) == o[1]

\* PlayerWallControlState::default(): wall_state: None
WallControlDefault == None

\* PlayerWallControlState::release
WallControlRelease(wall_state) == None

\* horizontal_momentum.or(horizontal_input)
OrSide(a, b) == IF a # "None" THEN a ELSE b

\* the input was preferred to the momentum: horizontal_input.or(horizontal_momentum)
WallAttachInputFirst(wall_state, results, player_is_airborne, horizontal_input, horizontal_momentum) ==
    LET player_side == OrSide(horizontal_input, horizontal_momentum)
    IN  IF ~IsSome(wall_state) /\ player_is_airborne /\ player_side # "None"
           /\ results[player_side] \in {"Wall", "Ledge"}
        THEN Some([side |-> player_side, push_away_timer |-> 0,
                   wall_type |-> results[player_side]])
        ELSE wall_state

\* tick, "Possibly enter the wall state"
WallAttach(wall_state, results, player_is_airborne, horizontal_input, horizontal_momentum) ==
    LET player_side == OrSide(horizontal_momentum, horizontal_input)
    IN  IF ~IsSome(wall_state) /\ player_is_airborne /\ player_side # "None"
           /\ results[player_side] \in {"Wall", "Ledge"}
        THEN Some([side |-> player_side, push_away_timer |-> 0,
                   wall_type |-> results[player_side]])
        ELSE wall_state

\* the timer was compared with > : the wall was let go one tick late
WallPushAwayOneLate(wall_state, wcp, horizontal_input) ==
    IF ~IsSome(wall_state) THEN wall_state
    ELSE LET inner == Unwrap(wall_state)
             is_pushing_away == horizontal_input # "None" /\ horizontal_input # inner.side
             timer == FrameCountIncrement(inner.push_away_timer)
         IN  IF is_pushing_away
             THEN (IF timer > wcp.push_away_duration
                   THEN None
                   ELSE Some([inner EXCEPT !.push_away_timer = timer]))
             ELSE Some([inner EXCEPT !.push_away_timer = 0])

\* tick, "If the player tries to push away from the wall for long enough"
WallPushAway(wall_state, wcp, horizontal_input) ==
    IF ~IsSome(wall_state) THEN wall_state
    ELSE LET inner == Unwrap(wall_state)
             is_pushing_away == horizontal_input # "None" /\ horizontal_input # inner.side
             timer == FrameCountIncrement(inner.push_away_timer)
         IN  IF is_pushing_away
             THEN (IF timer >= wcp.push_away_duration
                   THEN None
                   ELSE Some([inner EXCEPT !.push_away_timer = timer]))
             ELSE Some([inner EXCEPT !.push_away_timer = 0])

\* tick, "If the player pushes the Down button"
WallDownRelease(wall_state, vertical_input) ==
    IF vertical_input = "Down" THEN None ELSE wall_state

\* only NotAWall released the wall: a wall that shrank to a step was kept
WallSensorReleaseKeepsStep(wall_state, results) ==
    IF IsSome(wall_state) /\ results[Unwrap(wall_state).side] = "NotAWall"
    THEN None
    ELSE wall_state

\* the stored wall_type followed the sensor while the wall was held
WallSensorReleaseRefreshesType(wall_state, results) ==
    IF ~IsSome(wall_state) THEN wall_state
    ELSE IF results[Unwrap(wall_state).side] \in {"Step", "NotAWall"} THEN None
    ELSE Some([Unwrap(wall_state) EXCEPT
                  !.wall_type = results[Unwrap(wall_state).side]])

\* tick, "If the sensor no longer detects a wall"
WallSensorRelease(wall_state, results) ==
    IF IsSome(wall_state) /\ results[Unwrap(wall_state).side] \in {"Step", "NotAWall"}
    THEN None
    ELSE wall_state

\* tick, "If the player is grounded"
WallGroundRelease(wall_state, player_is_airborne) ==
    IF ~player_is_airborne THEN None ELSE wall_state

\* the grab test was made before the ledge test: holding toward a ledge
\* grabs it
WallClassifyGrabFirst(wall_state, horizontal_input, vertical_input) ==
    IF ~IsSome(wall_state) THEN None
    ELSE LET inner == Unwrap(wall_state)
             is_ledge == inner.wall_type = "Ledge"
         IN  IF horizontal_input = inner.side
             THEN Some([kind |-> "Grabbed", side |-> inner.side])
             ELSE IF is_ledge /\ vertical_input = "Up"
             THEN Some([kind |-> "Climbing", side |-> inner.side])
             ELSE Some([kind |-> "Sliding", side |-> inner.side])

\* tick, "Interpret the state and the player's directional inputs":
\* Option<PlayerWallState>, a PlayerWallState being [kind, side]
WallClassify(wall_state, horizontal_input, vertical_input) ==
    IF ~IsSome(wall_state) THEN None
    ELSE LET inner == Unwrap(wall_state)
             is_ledge == inner.wall_type = "Ledge"
         IN  IF is_ledge /\ (vertical_input = "Up" \/ horizontal_input = inner.side)
             THEN Some([kind |-> "Climbing", side |-> inner.side])
             ELSE IF horizontal_input = inner.side
             THEN Some([kind |-> "Grabbed", side |-> inner.side])
             ELSE Some([kind |-> "Sliding", side |-> inner.side])

\* PlayerWallControlState::tick: the new wall_state and the returned value
WallControlTick(wall_state, results, player_is_airborne, wcp, horizontal_input, horizontal_momentum, vertical_input) ==
    LET s1 == WallAttach(wall_state, results, player_is_airborne,
                         horizontal_input, horizontal_momentum)
        s2 == WallPushAway(s1, wcp, horizontal_input)
        s3 == WallDownRelease(s2, vertical_input)
        s4 == WallSensorRelease(s3, results)
        s5 == WallGroundRelease(s4, player_is_airborne)
    IN  [wall_state |-> s5,
         returned |-> WallClassify(s5, horizontal_input, vertical_input)]

(***************************************************************************)
(* player/control_state.rs: TemporaryForce, PlayerControlState             *)
(***************************************************************************)
Vec2(x, y) == [x |-> x, y |-> y]

Vec2Zero == Vec2(0, 0)

Vec2Add(a, b) == Vec2(a.x + b.x, a.y + b.y)

Vec2Scale(a, k) == Vec2(a.x * k, a.y * k)

Vec2Dot(a, b) == a.x * b.x + a.y * b.y

TemporaryForceDefault == [age |-> 0, max |-> Vec2Zero]

\* the force did not age: tick left it as it was
TemporaryForceTickFrozen(f) == [f EXCEPT !.max = f.max]

TemporaryForceTick(f) == [f EXCEPT !.age = FrameCountIncrement(f.age)]

TemporaryForceReset(f, max) == [max |-> max, age |-> 0]

\* a whole division that rounds toward zero, as the velocity grid does
DivTowardZero(a, b) == IF a >= 0 THEN a \div b ELSE -((-a) \div b)

\* max * EasingCurve::new(1.0, 0.0, EaseFunction::Linear).sample_unchecked(t)
\* with t = age / duration: max * (1 - age / duration), on the velocity grid
LinearDecay(max, age, duration) ==
    Vec2(DivTowardZero(max.x * (duration - age), duration),
         DivTowardZero(max.y * (duration - age), duration))

\* the age was not compared with the duration: an expired force went on,
\* past the end of the curve
TemporaryForceEvalNoExpiry(f, curve) ==
    IF curve.duration = 0
    THEN Vec2Zero
    ELSE LinearDecay(f.max, f.age, curve.duration)

TemporaryForceEval(f, curve) ==
    IF f.age > curve.duration \/ curve.duration = 0
    THEN Vec2Zero
    ELSE LinearDecay(f.max, f.age, curve.duration)

\* the default state started with two jumps in hand
PlayerControlStateDefaultWithJumps ==
    [grounded |-> CapacitiveFlagDefault,
     jumping |-> FALSE,
     lost_jump_due_to_falling |-> FALSE,
     own_velocity |-> Vec2Zero,
     jump_requested |-> CapacitiveFlagDefault,
     jumps_remaining |-> 2,
     jump_cooldown |-> CooldownDefault,
     wall_jump_force |-> TemporaryForceDefault,
     wall_jump_input_cooldown |-> CooldownDefault,
     wall_jump_latest_side |-> "None",
     wall_control_state |-> WallControlDefault,
     previous_total_velocity |-> Vec2Zero]

\* PlayerControlState::default() (the derive); wall_sensors is the variable
\* of that name; x_when_jumped and y_when_jumped only feed log lines
PlayerControlStateDefault ==
    [grounded |-> CapacitiveFlagDefault,
     jumping |-> FALSE,
     lost_jump_due_to_falling |-> FALSE,
     own_velocity |-> Vec2Zero,
     jump_requested |-> CapacitiveFlagDefault,
     jumps_remaining |-> 0,
     jump_cooldown |-> CooldownDefault,
     wall_jump_force |-> TemporaryForceDefault,
     wall_jump_input_cooldown |-> CooldownDefault,
     wall_jump_latest_side |-> "None",
     wall_control_state |-> WallControlDefault,
     previous_total_velocity |-> Vec2Zero]

(***************************************************************************)
(* player/system.rs: player_system, one step of the tick at a time         *)
(***************************************************************************)
\* match (left pressed, right pressed): horizontal `desired`
KeysToSide(left, right) ==
    IF left /\ ~right THEN "Left"
    ELSE IF ~left /\ right THEN "Right"
    ELSE "None"

\* match (W pressed, S pressed): vertical_input
KeysToYSide(up, down) ==
    IF up /\ ~down THEN "Up"
    ELSE IF ~up /\ down THEN "Down"
    ELSE "None"

\* the cooldown was not looked at: input toward the wall last jumped from
\* is dropped for good
HorizontalInputSideOnly(desired, wall_jump_input_cooldown, wall_jump_latest_side) ==
    IF desired = wall_jump_latest_side THEN "None" ELSE desired

\* horizontal_input: `desired`, dropped while the wall-jump input cooldown
\* runs and it points back at the wall last jumped from
HorizontalInput(desired, wall_jump_input_cooldown, wall_jump_latest_side) ==
    IF ~CooldownIsReady(wall_jump_input_cooldown) /\ desired = wall_jump_latest_side
    THEN "None"
    ELSE desired

\* own_velocity += -own_velocity.dot(normal) * normal
ArrestVelocity(own_velocity, normal) ==
    Vec2Add(own_velocity, Vec2Scale(normal, -Vec2Dot(own_velocity, normal)))

\* the Platform test was left out: any touched entity arrests the player
RECURSIVE ApplyCollisionsAnyEntity(_, _)
ApplyCollisionsAnyEntity(own_velocity, collisions) ==
    IF collisions = << >> THEN own_velocity
    ELSE LET collision == Head(collisions)
             v == IF IsSome(collision.details)
                  THEN ArrestVelocity(own_velocity, Unwrap(collision.details))
                  ELSE own_velocity
         IN  ApplyCollisionsAnyEntity(v, Tail(collisions))

\* the loop over last_controller_out.collisions, in report order; a
\* collision is [platform, details]: whether the entity is a Platform and
\* Option<normal1>
RECURSIVE ApplyCollisions(_, _)
ApplyCollisions(own_velocity, collisions) ==
    IF collisions = << >> THEN own_velocity
    ELSE LET collision == Head(collisions)
             v == IF collision.platform /\ IsSome(collision.details)
                  THEN ArrestVelocity(own_velocity, Unwrap(collision.details))
                  ELSE own_velocity
         IN  ApplyCollisions(v, Tail(collisions))

\* u8::saturating_sub(1)
SaturatingSub1(n) == IF n = 0 THEN 0 ELSE n - 1

\* the fall-off penalty was charged on every tick past the coyote time
RefundOrLoseJumpEveryTick(p, grounded, pp) ==
    IF IsSet(grounded)
    THEN [jumps_remaining |-> pp.max_jumps, jumping |-> FALSE,
          lost_jump_due_to_falling |-> FALSE, penalty |-> FALSE]
    ELSE IF ~WasSetWithin(grounded, pp.coyote_time) /\ ~p.jumping
    THEN [jumps_remaining |-> SaturatingSub1(p.jumps_remaining), jumping |-> p.jumping,
          lost_jump_due_to_falling |-> TRUE, penalty |-> TRUE]
    ELSE [jumps_remaining |-> p.jumps_remaining, jumping |-> p.jumping,
          lost_jump_due_to_falling |-> p.lost_jump_due_to_falling, penalty |-> FALSE]

\* the coyote time was not waited for: the penalty fell on the first
\* ungrounded tick
RefundOrLoseJumpNoCoyote(p, grounded, pp) ==
    IF IsSet(grounded)
    THEN [jumps_remaining |-> pp.max_jumps, jumping |-> FALSE,
          lost_jump_due_to_falling |-> FALSE, penalty |-> FALSE]
    ELSE IF ~p.lost_jump_due_to_falling /\ ~p.jumping
    THEN [jumps_remaining |-> SaturatingSub1(p.jumps_remaining), jumping |-> p.jumping,
          lost_jump_due_to_falling |-> TRUE, penalty |-> TRUE]
    ELSE [jumps_remaining |-> p.jumps_remaining, jumping |-> p.jumping,
          lost_jump_due_to_falling |-> p.lost_jump_due_to_falling, penalty |-> FALSE]

\* reaching the ground cleared the flags but refunded no jump
RefundOrLoseJumpNoRefund(p, grounded, pp) ==
    IF IsSet(grounded)
    THEN [jumps_remaining |-> p.jumps_remaining, jumping |-> FALSE,
          lost_jump_due_to_falling |-> FALSE, penalty |-> FALSE]
    ELSE IF ~WasSetWithin(grounded, pp.coyote_time)
            /\ ~p.lost_jump_due_to_falling /\ ~p.jumping
    THEN [jumps_remaining |-> SaturatingSub1(p.jumps_remaining), jumping |-> p.jumping,
          lost_jump_due_to_falling |-> TRUE, penalty |-> TRUE]
    ELSE [jumps_remaining |-> p.jumps_remaining, jumping |-> p.jumping,
          lost_jump_due_to_falling |-> p.lost_jump_due_to_falling, penalty |-> FALSE]

\* "refund jump ability when reaching the ground", else the fall-off
\* penalty; `penalty` tells whether the decrement of line 149 ran
RefundOrLoseJump(p, grounded, pp) ==
    IF IsSet(grounded)
    THEN [jumps_remaining |-> pp.max_jumps, jumping |-> FALSE,
          lost_jump_due_to_falling |-> FALSE, penalty |-> FALSE]
    ELSE IF ~WasSetWithin(grounded, pp.coyote_time)
            /\ ~p.lost_jump_due_to_falling /\ ~p.jumping
    THEN [jumps_remaining |-> SaturatingSub1(p.jumps_remaining), jumping |-> p.jumping,
          lost_jump_due_to_falling |-> TRUE, penalty |-> TRUE]
    ELSE [jumps_remaining |-> p.jumps_remaining, jumping |-> p.jumping,
          lost_jump_due_to_falling |-> p.lost_jump_due_to_falling, penalty |-> FALSE]

\* match player.previous_total_velocity.x { 0.0 => None, x => its sign }
HorizontalMomentum(previous_total_velocity) ==
    IF previous_total_velocity.x = 0 THEN "None"
    ELSE IF previous_total_velocity.x < 0 THEN "Left"
    ELSE "Right"

Max(a, b) == IF a >= b THEN a ELSE b

Min(a, b) == IF a <= b THEN a ELSE b

\* the grab did not clamp at 0: gravity pulled a grabbing player down
VerticalVelocityGrabFalls(vy, grounded, player_wall_state, pp) ==
    LET wcp == pp.wall_control_params
    IN  IF IsSet(grounded) THEN 0
        ELSE IF IsSome(player_wall_state)
        THEN LET kind == Unwrap(player_wall_state).kind
             IN  CASE kind = "Grabbed" -> vy + pp.gravity
                   [] kind = "Sliding" ->
                        IF vy >= -pp.gravity THEN vy + pp.gravity
                        ELSE IF vy > 0 THEN 0
                        ELSE Max(vy - wcp.slide_acceleration, -wcp.slide_max_speed)
                   [] kind = "Climbing" ->
                        IF vy < wcp.climb_max_speed
                        THEN Max(Min(vy + wcp.climb_acceleration, wcp.climb_max_speed), 0)
                        ELSE Min(vy + pp.gravity, wcp.climb_max_speed)
        ELSE vy + pp.gravity

\* the slide was not capped at slide_max_speed
VerticalVelocitySlideUncapped(vy, grounded, player_wall_state, pp) ==
    LET wcp == pp.wall_control_params
    IN  IF IsSet(grounded) THEN 0
        ELSE IF IsSome(player_wall_state)
        THEN LET kind == Unwrap(player_wall_state).kind
             IN  CASE kind = "Grabbed" -> Max(vy + pp.gravity, 0)
                   [] kind = "Sliding" ->
                        IF vy >= -pp.gravity THEN vy + pp.gravity
                        ELSE IF vy > 0 THEN 0
                        ELSE vy - wcp.slide_acceleration
                   [] kind = "Climbing" ->
                        IF vy < wcp.climb_max_speed
                        THEN Max(Min(vy + wcp.climb_acceleration, wcp.climb_max_speed), 0)
                        ELSE Min(vy + pp.gravity, wcp.climb_max_speed)
        ELSE vy + pp.gravity

\* a slide took the whole of gravity whenever the player was not falling
VerticalVelocitySlideFullGravity(vy, grounded, player_wall_state, pp) ==
    LET wcp == pp.wall_control_params
    IN  IF IsSet(grounded) THEN 0
        ELSE IF IsSome(player_wall_state)
        THEN LET kind == Unwrap(player_wall_state).kind
             IN  CASE kind = "Grabbed" -> Max(vy + pp.gravity, 0)
                   [] kind = "Sliding" ->
                        IF vy >= 0 THEN vy + pp.gravity
                        ELSE Max(vy - wcp.slide_acceleration, -wcp.slide_max_speed)
                   [] kind = "Climbing" ->
                        IF vy < wcp.climb_max_speed
                        THEN Max(Min(vy + wcp.climb_acceleration, wcp.climb_max_speed), 0)
                        ELSE Min(vy + pp.gravity, wcp.climb_max_speed)
        ELSE vy + pp.gravity

\* "apply gravity (when not already on the ground or stuck to a wall)"
VerticalVelocity(vy, grounded, player_wall_state, pp) ==
    LET wcp == pp.wall_control_params
    IN  IF IsSet(grounded) THEN 0
        ELSE IF IsSome(player_wall_state)
        THEN LET kind == Unwrap(player_wall_state).kind
             IN  CASE kind = "Grabbed" -> Max(vy + pp.gravity, 0)
                   [] kind = "Sliding" ->
                        IF vy >= -pp.gravity THEN vy + pp.gravity
                        ELSE IF vy > 0 THEN 0
                        ELSE Max(vy - wcp.slide_acceleration, -wcp.slide_max_speed)
                   [] kind = "Climbing" ->
                        IF vy < wcp.climb_max_speed
                        THEN Max(Min(vy + wcp.climb_acceleration, wcp.climb_max_speed), 0)
                        ELSE Min(vy + pp.gravity, wcp.climb_max_speed)
        ELSE vy + pp.gravity

\* x * f32::consts::FRAC_1_SQRT_2, to the nearest point of the velocity grid
MulFrac1Sqrt2(x) ==
    IF x >= 0 THEN (x * 7071 + 5000) \div 10000
    ELSE -(((-x) * 7071 + 5000) \div 10000)

\* a jump left the jump cooldown as it was
JumpKeepsCooldown(c, wants_to_jump, player_wall_state, pp) ==
    IF ~(wants_to_jump /\ CooldownIsReady(c.jump_cooldown))
    THEN c @@ [jump |-> "None"]
    ELSE IF IsSome(player_wall_state)
    THEN LET side == Unwrap(player_wall_state).side
             jump_vx == MulSide(MulFrac1Sqrt2(pp.run.max_speed), NegSide(side))
             jump_vy == MulFrac1Sqrt2(pp.jump_speed)
         IN  [c EXCEPT !.wall_jump_force = TemporaryForceReset(@, Vec2(jump_vx, 0)),
                       !.vy = jump_vy,
                       !.jumping = TRUE,
                       !.wall_jump_input_cooldown = CooldownReset(pp.wall_jump_input_cooldown),
                       !.wall_jump_latest_side = side,
                       !.wall_control_state = WallControlRelease(@)]
             @@ [jump |-> "Wall"]
    ELSE IF c.jumps_remaining > 0
    THEN [c EXCEPT !.vy = pp.jump_speed,
                   !.jumps_remaining = @ - 1,
                   !.jumping = TRUE]
         @@ [jump |-> "Normal"]
    ELSE c @@ [jump |-> "None"]

\* the normal jump was taken without looking at jumps_remaining; the u8
\* decrement of 0 wraps
JumpUnguarded(c, wants_to_jump, player_wall_state, pp) ==
    IF ~(wants_to_jump /\ CooldownIsReady(c.jump_cooldown))
    THEN c @@ [jump |-> "None"]
    ELSE IF IsSome(player_wall_state)
    THEN LET side == Unwrap(player_wall_state).side
             jump_vx == MulSide(MulFrac1Sqrt2(pp.run.max_speed), NegSide(side))
             jump_vy == MulFrac1Sqrt2(pp.jump_speed)
         IN  [c EXCEPT !.wall_jump_force = TemporaryForceReset(@, Vec2(jump_vx, 0)),
                       !.vy = jump_vy,
                       !.jumping = TRUE,
                       !.jump_cooldown = CooldownReset(pp.jump_cooldown),
                       !.wall_jump_input_cooldown = CooldownReset(pp.wall_jump_input_cooldown),
                       !.wall_jump_latest_side = side,
                       !.wall_control_state = WallControlRelease(@)]
             @@ [jump |-> "Wall"]
    ELSE [c EXCEPT !.vy = pp.jump_speed,
                   !.jumps_remaining = (@ + 255) % 256,
                   !.jumping = TRUE,
                   !.jump_cooldown = CooldownReset(pp.jump_cooldown)]
         @@ [jump |-> "Normal"]

\* the normal jump forgot to spend a jump
JumpWithoutSpending(c, wants_to_jump, player_wall_state, pp) ==
    IF ~(wants_to_jump /\ CooldownIsReady(c.jump_cooldown))
    THEN c @@ [jump |-> "None"]
    ELSE IF IsSome(player_wall_state)
    THEN LET side == Unwrap(player_wall_state).side
             jump_vx == MulSide(MulFrac1Sqrt2(pp.run.max_speed), NegSide(side))
             jump_vy == MulFrac1Sqrt2(pp.jump_speed)
         IN  [c EXCEPT !.wall_jump_force = TemporaryForceReset(@, Vec2(jump_vx, 0)),
                       !.vy = jump_vy,
                       !.jumping = TRUE,
                       !.jump_cooldown = CooldownReset(pp.jump_cooldown),
                       !.wall_jump_input_cooldown = CooldownReset(pp.wall_jump_input_cooldown),
                       !.wall_jump_latest_side = side,
                       !.wall_control_state = WallControlRelease(@)]
             @@ [jump |-> "Wall"]
    ELSE IF c.jumps_remaining > 0
    THEN [c EXCEPT !.vy = pp.jump_speed,
                   !.jumping = TRUE,
                   !.jump_cooldown = CooldownReset(pp.jump_cooldown)]
         @@ [jump |-> "Normal"]
    ELSE c @@ [jump |-> "None"]

\* the wall jump was charged like a normal jump: it needed and spent a jump
JumpWallSpends(c, wants_to_jump, player_wall_state, pp) ==
    IF ~(wants_to_jump /\ CooldownIsReady(c.jump_cooldown))
    THEN c @@ [jump |-> "None"]
    ELSE IF IsSome(player_wall_state) /\ c.jumps_remaining > 0
    THEN LET side == Unwrap(player_wall_state).side
             jump_vx == MulSide(MulFrac1Sqrt2(pp.run.max_speed), NegSide(side))
             jump_vy == MulFrac1Sqrt2(pp.jump_speed)
         IN  [c EXCEPT !.wall_jump_force = TemporaryForceReset(@, Vec2(jump_vx, 0)),
                       !.vy = jump_vy,
                       !.jumps_remaining = @ - 1,
                       !.jumping = TRUE,
                       !.jump_cooldown = CooldownReset(pp.jump_cooldown),
                       !.wall_jump_input_cooldown = CooldownReset(pp.wall_jump_input_cooldown),
                       !.wall_jump_latest_side = side,
                       !.wall_control_state = WallControlRelease(@)]
             @@ [jump |-> "Wall"]
    ELSE IF c.jumps_remaining > 0
    THEN [c EXCEPT !.vy = pp.jump_speed,
                   !.jumps_remaining = @ - 1,
                   !.jumping = TRUE,
                   !.jump_cooldown = CooldownReset(pp.jump_cooldown)]
         @@ [jump |-> "Normal"]
    ELSE c @@ [jump |-> "None"]

\* the wall jump kicked toward the wall and kept hold of it
JumpWallTowardWall(c, wants_to_jump, player_wall_state, pp) ==
    IF ~(wants_to_jump /\ CooldownIsReady(c.jump_cooldown))
    THEN c @@ [jump |-> "None"]
    ELSE IF IsSome(player_wall_state)
    THEN LET side == Unwrap(player_wall_state).side
             jump_vx == MulSide(MulFrac1Sqrt2(pp.run.max_speed), side)
             jump_vy == MulFrac1Sqrt2(pp.jump_speed)
         IN  [c EXCEPT !.wall_jump_force = TemporaryForceReset(@, Vec2(jump_vx, 0)),
                       !.vy = jump_vy,
                       !.jumping = TRUE,
                       !.jump_cooldown = CooldownReset(pp.jump_cooldown),
                       !.wall_jump_input_cooldown = CooldownReset(pp.wall_jump_input_cooldown),
                       !.wall_jump_latest_side = side]
             @@ [jump |-> "Wall"]
    ELSE IF c.jumps_remaining > 0
    THEN [c EXCEPT !.vy = pp.jump_speed,
                   !.jumps_remaining = @ - 1,
                   !.jumping = TRUE,
                   !.jump_cooldown = CooldownReset(pp.jump_cooldown)]
         @@ [jump |-> "Normal"]
    ELSE c @@ [jump |-> "None"]

\* "// jump": c holds the fields the jump may write (vy is own_velocity.y);
\* the result adds `jump`: which jump fired, "None", "Wall" or "Normal"
Jump(c, wants_to_jump, player_wall_state, pp) ==
    IF ~(wants_to_jump /\ CooldownIsReady(c.jump_cooldown))
    THEN c @@ [jump |-> "None"]
    ELSE IF IsSome(player_wall_state)
    THEN LET side == Unwrap(player_wall_state).side
             jump_vx == MulSide(MulFrac1Sqrt2(pp.run.max_speed), NegSide(side))
             jump_vy == MulFrac1Sqrt2(pp.jump_speed)
         IN  [c EXCEPT !.wall_jump_force = TemporaryForceReset(@, Vec2(jump_vx, 0)),
                       !.vy = jump_vy,
                       !.jumping = TRUE,
                       !.jump_cooldown = CooldownReset(pp.jump_cooldown),
                       !.wall_jump_input_cooldown = CooldownReset(pp.wall_jump_input_cooldown),
                       !.wall_jump_latest_side = side,
                       !.wall_control_state = WallControlRelease(@)]
             @@ [jump |-> "Wall"]
    ELSE IF c.jumps_remaining > 0
    THEN [c EXCEPT !.vy = pp.jump_speed,
                   !.jumps_remaining = @ - 1,
                   !.jumping = TRUE,
                   !.jump_cooldown = CooldownReset(pp.jump_cooldown)]
         @@ [jump |-> "Normal"]
    ELSE c @@ [jump |-> "None"]

\* the fields of PlayerControlState that the jump step may write
JumpFields(p, jumps, vy, jump_cooldown, wall_jump_force, wall_jump_input_cooldown, wall_control_state) ==
    [vy |-> vy,
     jumps_remaining |-> jumps.jumps_remaining,
     jumping |-> jumps.jumping,
     jump_cooldown |-> jump_cooldown,
     wall_jump_force |-> wall_jump_force,
     wall_jump_input_cooldown |-> wall_jump_input_cooldown,
     wall_jump_latest_side |-> p.wall_jump_latest_side,
     wall_control_state |-> wall_control_state]

\* One run of the loop body of player_system with the params asset loaded
\* and a cuboid collider: p is the PlayerControlState and ws its
\* wall_sensors before the tick, pp the params, `in` what the tick reads
\* from the keyboard, the controller output and the ray casts. The result
\* holds the state after the tick and what the tick decided on the way.
PlayerSystem(p, ws, pp, in) ==
    LET jump_requested == CapacitiveFlagTick(p.jump_requested, in.jump_pressed)
        wants_to_jump == WasSetWithin(jump_requested, pp.jump_input_buffer)
        jump_cooldown == CooldownTick(p.jump_cooldown)
        grounded == CapacitiveFlagTick(p.grounded, in.grounded)
        wall_jump_force == TemporaryForceTick(p.wall_jump_force)
        wall_jump_input_cooldown == CooldownTick(p.wall_jump_input_cooldown)
        desired == KeysToSide(in.left, in.right)
        horizontal_input ==
            HorizontalInput(desired, wall_jump_input_cooldown, p.wall_jump_latest_side)
        vertical_input == KeysToYSide(in.up, in.down)
        arrested == ApplyCollisions(p.own_velocity, in.collisions)
        sensors == WallSensorsUpdate(ws, in.rays)
        wall_sensor_state == [side \in Side |-> Interpret(sensors, side)]
        jumps == RefundOrLoseJump(p, grounded, pp)
        is_airborne == ~IsSet(grounded)
        horizontal_momentum == HorizontalMomentum(p.previous_total_velocity)
        wall == WallControlTick(p.wall_control_state, wall_sensor_state, is_airborne,
                                pp.wall_control_params, horizontal_input,
                                horizontal_momentum, vertical_input)
        player_wall_state == wall.returned
        filtered_horizontal_input ==
            IF IsSome(player_wall_state) THEN "None" ELSE horizontal_input
        vx == ComputeNextHorizontalVelocity(arrested.x, filtered_horizontal_input,
                  IF IsSet(grounded) THEN pp.run ELSE pp.float)
        vy == VerticalVelocity(arrested.y, grounded, player_wall_state, pp)
        j == Jump(JumpFields(p, jumps, vy, jump_cooldown, wall_jump_force,
                             wall_jump_input_cooldown, wall.wall_state),
                  wants_to_jump, player_wall_state, pp)
        own_velocity == Vec2(vx, j.vy)
        force == TemporaryForceEval(j.wall_jump_force, pp.wall_jump_force_decay)
        player_velocity_per_sec == Vec2Add(own_velocity, force)
    IN  [player |->
            [grounded |-> grounded,
             jumping |-> j.jumping,
             lost_jump_due_to_falling |-> jumps.lost_jump_due_to_falling,
             own_velocity |-> own_velocity,
             jump_requested |-> jump_requested,
             jumps_remaining |-> j.jumps_remaining,
             jump_cooldown |-> j.jump_cooldown,
             wall_jump_force |-> j.wall_jump_force,
             wall_jump_input_cooldown |-> j.wall_jump_input_cooldown,
             wall_jump_latest_side |-> j.wall_jump_latest_side,
             wall_control_state |-> j.wall_control_state,
             previous_total_velocity |-> player_velocity_per_sec],
         wall_sensors |-> sensors,
         wants_to_jump |-> wants_to_jump,
         cooldown_ready |-> CooldownIsReady(jump_cooldown),
         desired |-> desired,
         horizontal_input |-> horizontal_input,
         vertical_input |-> vertical_input,
         horizontal_momentum |-> horizontal_momentum,
         penalty |-> jumps.penalty,
         jumps_before_jump |-> jumps.jumps_remaining,
         player_wall_state |-> player_wall_state,
         jump |-> j.jump,
         wall_jump_force |-> force,
         translation |-> player_velocity_per_sec]

\* the timers and the jump buffer were ticked before the params were
\* looked up
PlayerSystemBodyTicksFirst(p, ws, ctl, player_params, in) ==
    IF IsSome(player_params)
    THEN LET r == PlayerSystem(p, ws, Unwrap(player_params), in)
         IN  [player |-> r.player, wall_sensors |-> r.wall_sensors,
              controller |-> Some(r.translation), loaded |-> TRUE]
    ELSE [player |->
              [p EXCEPT !.jump_requested = CapacitiveFlagTick(@, in.jump_pressed),
                        !.jump_cooldown = CooldownTick(@),
                        !.grounded = CapacitiveFlagTick(@, in.grounded),
                        !.wall_jump_force = TemporaryForceTick(@),
                        !.wall_jump_input_cooldown = CooldownTick(@)],
          wall_sensors |-> ws, controller |-> ctl, loaded |-> FALSE]

\* the vertical step read the gravity of the params file as shipped (-2),
\* not of the asset as it is at this tick
PlayerSystemBodyStaleGravity(p, ws, ctl, player_params, in) ==
    IF IsSome(player_params)
    THEN LET r == PlayerSystem(p, ws, [Unwrap(player_params) EXCEPT !.gravity = -2], in)
         IN  [player |-> r.player, wall_sensors |-> r.wall_sensors,
              controller |-> Some(r.translation), loaded |-> TRUE]
    ELSE [player |-> p, wall_sensors |-> ws, controller |-> ctl, loaded |-> FALSE]

\* the body of the loop of player_system for one player: player_params is
\* control_params.get(..), an Option; ctl is controller.translation, which
\* only the loaded branch writes (the velocity times the tick's delta, kept
\* here in velocity units)
PlayerSystemBody(p, ws, ctl, player_params, in) ==
    IF IsSome(player_params)
    THEN LET r == PlayerSystem(p, ws, Unwrap(player_params), in)
         IN  [player |-> r.player, wall_sensors |-> r.wall_sensors,
              controller |-> Some(r.translation), loaded |-> TRUE]
    ELSE [player |-> p, wall_sensors |-> ws, controller |-> ctl, loaded |-> FALSE]

\* the statements of the loop body that precede as_cuboid(): the five
\* timers ticked and the collision loop run
PlayerSystemUntilPanic(p, in) ==
    [p EXCEPT !.jump_requested = CapacitiveFlagTick(@, in.jump_pressed),
              !.jump_cooldown = CooldownTick(@),
              !.grounded = CapacitiveFlagTick(@, in.grounded),
              !.wall_jump_force = TemporaryForceTick(@),
              !.wall_jump_input_cooldown = CooldownTick(@),
              !.own_velocity = ApplyCollisions(@, in.collisions)]

\* a collider that is no cuboid was given default half extents and the
\* tick went on
PlayerSystemWithColliderFallback(p, ws, ctl, shape, pp, in) ==
    LET r == PlayerSystem(p, ws, pp, in)
    IN  [player |-> r.player, wall_sensors |-> r.wall_sensors,
         controller |-> Some(r.translation), panicked |-> FALSE]

\* the loaded branch of the loop body with the collider's shape: as_cuboid()
\* of anything but a cuboid is None and unwrap_or_else panics, after the
\* statements above it have written to the PlayerControlState
PlayerSystemWithCollider(p, ws, ctl, shape, pp, in) ==
    IF shape = "Cuboid"
    THEN LET r == PlayerSystem(p, ws, pp, in)
         IN  [player |-> r.player, wall_sensors |-> r.wall_sensors,
              controller |-> Some(r.translation), panicked |-> FALSE]
    ELSE [player |-> PlayerSystemUntilPanic(p, in), wall_sensors |-> ws,
          controller |-> ctl, panicked |-> TRUE]

(***************************************************************************)
(* Specification CooldownSpec: one Cooldown under reset(D) and tick().     *)
(***************************************************************************)
cd_vars == <<cooldown, cd_duration, cd_ticks>>

\* Cooldown::default() is FrameCount(0): the state reset(FrameCount(0)) leaves
CooldownIdle ==
    /\ cooldown = CooldownDefault
    /\ cd_duration = 0
    /\ cd_ticks = 0

flag_vars == <<flag, flag_fed>>

FlagIdle ==
    /\ flag = CapacitiveFlagDefault
    /\ flag_fed = << >>

SensorsIdle == wall_sensors = WallSensorsDefault

HorizontalControlParams ==
    [max_speed : 0 .. MaxSpeedParam,
     acceleration : 0 .. MaxAccelParam,
     deceleration : 0 .. MaxAccelParam]

SolverIdle ==
    solver = [vel |-> 0, input_direction |-> "None",
              hp |-> [max_speed |-> 0, acceleration |-> 0, deceleration |-> 0],
              vel0 |-> 0, prev |-> 0, calls |-> 0, reached |-> FALSE]

\* the parameters of setup_player (main.rs:234-266) on a coarse velocity
\* grid: run faster than float, a jump of two gravity steps, short timers
BaseParams ==
    [run |-> [max_speed |-> 3, acceleration |-> 1, deceleration |-> 2],
     float |-> [max_speed |-> 2, acceleration |-> 1, deceleration |-> 2],
     jump_speed |-> 4,
     gravity |-> -2,
     coyote_time |-> 1,
     jump_input_buffer |-> 1,
     max_jumps |-> 1,
     jump_cooldown |-> 2,
     wall_jump_force_decay |-> [easing |-> "Linear", duration |-> 2],
     wall_jump_input_cooldown |-> 1,
     wall_control_params |->
         [push_away_duration |-> 2,
          slide_max_speed |-> 2,
          slide_acceleration |-> 1,
          climb_max_speed |-> 1,
          climb_acceleration |-> 1]]

\* "no such tick yet" in a count of ticks since an event: more than any
\* count of the run
Never == MaxWallJumpTicks + 1

\* before the first tick: nothing decided yet
ObsInit ==
    [now |-> 0, jump |-> "None", penalty |-> FALSE, was_jumping |-> FALSE,
     cooldown_ready |-> TRUE,
     player_wall_state |-> None,
     ever_grounded |-> FALSE, air_ticks |-> 0, penalties |-> 0,
     episode_jumps |-> 0]

player_vars == <<player, params, obs, wj_obs>>

\* before the first tick: no press and no wall jump seen; `since_press`
\* and `since_wall_jump` count the ticks since the latest one, Never if none
WjObsInit ==
    [now |-> 0, jump |-> "None", wants_to_jump |-> FALSE, cooldown_ready |-> TRUE,
     player_wall_state |-> None, jumps_before_jump |-> 0,
     desired |-> "None", horizontal_input |-> "None",
     since_press |-> Never, since_wall_jump |-> Never, wall_jump_side |-> "None"]

PlayerIdle ==
    /\ player = PlayerControlStateDefault
    /\ params = BaseParams
    /\ obs = ObsInit
    /\ wj_obs = WjObsInit

wall_vars == <<wall_control, wall_params, wall_obs>>

\* before the first tick of the wall machine: nothing seen yet
WallObsInit ==
    [ticks |-> 0, start |-> None, attach |-> None, returned |-> None, streak |-> 0,
     in |-> [results |-> [side \in Side |-> "NotAWall"],
             player_is_airborne |-> FALSE,
             horizontal_input |-> "None",
             horizontal_momentum |-> "None",
             vertical_input |-> "None"]]

WallIdle ==
    /\ wall_control = WallControlDefault
    /\ wall_params = BaseParams.wall_control_params
    /\ wall_obs = WallObsInit

asset_vars == <<asset, controller, asset_obs>>

\* before the first tick; `before` is the state the latest tick started from
AssetObsInit ==
    [now |-> 0, loaded |-> FALSE, jump_pressed |-> FALSE,
     before |-> [player |-> PlayerControlStateDefault,
                 wall_sensors |-> WallSensorsDefault,
                 controller |-> None]]

\* the handle's asset is not loaded yet, and no translation was requested
AssetIdle ==
    /\ asset = None
    /\ controller = None
    /\ asset_obs = AssetObsInit

more_vars == <<move_obs, collide, tforce, collider, panicked, crash_obs, reload_obs, jump_obs>>

\* before the first tick
MoveObsInit ==
    [now |-> 0, vy |-> 0, grounded |-> FALSE, player_wall_state |-> None,
     jump |-> "None"]

\* before the first pass of the collision loop
CollideInit(own_velocity, collisions) ==
    [own_velocity |-> own_velocity, collisions |-> collisions,
     out |-> own_velocity, calls |-> 0]

\* TemporaryForce::default() beside a curve of the given duration
ForceInit(duration) ==
    [force |-> TemporaryForceDefault, duration |-> duration,
     before |-> TemporaryForceDefault, op |-> "default", arg |-> Vec2Zero,
     out |-> Vec2Zero, calls |-> 0]

\* before the first tick
CrashObsInit ==
    [now |-> 0,
     before |-> [player |-> PlayerControlStateDefault,
                 wall_sensors |-> WallSensorsDefault,
                 controller |-> None],
     shape |-> "Cuboid",
     in |-> << >>]

\* before the first tick
ReloadObsInit ==
    [now |-> 0, reloads |-> 0, fresh |-> FALSE, snapshot |-> None,
     before |-> PlayerControlStateDefault, in |-> << >>,
     wants_to_jump |-> FALSE, jumps_before_jump |-> 0, jump |-> "None",
     player_wall_state |-> None]

\* before the first tick: never grounded, nothing pressed, no jump fired
JumpObsInit ==
    [now |-> 0, presses |-> 0, jumps |-> 0, since_jump |-> Never, last_gap |-> Never,
     since_press |-> Never, air_ticks |-> 0, ever_grounded |-> FALSE,
     was_jumping |-> FALSE, grounded |-> FALSE,
     wants_to_jump |-> FALSE, cooldown_ready |-> TRUE, jump |-> "None",
     player_wall_state |-> None, was_grounded |-> FALSE,
     press_unmet |-> FALSE, jump_pressed |-> FALSE]

\* setup_player's cuboid collider; nothing else is in use
MoreIdle ==
    /\ move_obs = MoveObsInit
    /\ collide = CollideInit(Vec2Zero, << >>)
    /\ tforce = ForceInit(0)
    /\ collider = "Cuboid"
    /\ panicked = FALSE
    /\ crash_obs = CrashObsInit
    /\ reload_obs = ReloadObsInit
    /\ jump_obs = JumpObsInit

CooldownInit == CooldownIdle /\ FlagIdle /\ SensorsIdle /\ SolverIdle /\ PlayerIdle /\ WallIdle /\ AssetIdle /\ MoreIdle

DoCooldownReset ==
    /\ \E duration \in 0 .. MaxDuration :
          /\ cooldown' = CooldownReset(duration)
          /\ cd_duration' = duration
    /\ cd_ticks' = 0
    /\ UNCHANGED <<flag_vars, wall_sensors, solver, player_vars, wall_vars, asset_vars, more_vars>>

DoCooldownTick ==
    /\ cd_ticks < MaxCdTicks
    /\ cooldown' = CooldownTick(cooldown)
    /\ cd_ticks' = cd_ticks + 1
    /\ UNCHANGED <<cd_duration, flag_vars, wall_sensors, solver, player_vars, wall_vars, asset_vars, more_vars>>

CooldownNext == DoCooldownReset \/ DoCooldownTick

CooldownSpec == CooldownInit /\ [][CooldownNext]_vars

(***************************************************************************)
(* Specification FlagSpec: one CapacitiveFlag under tick(bool).            *)
(***************************************************************************)
FlagInit == CooldownIdle /\ FlagIdle /\ SensorsIdle /\ SolverIdle /\ PlayerIdle /\ WallIdle /\ AssetIdle /\ MoreIdle

DoFlagTick ==
    /\ Len(flag_fed) < MaxFlagTicks
    /\ \E value \in BOOLEAN :
          /\ flag' = CapacitiveFlagTick(flag, value)
          /\ flag_fed' = Append(flag_fed, value)
    /\ UNCHANGED <<cd_vars, wall_sensors, solver, player_vars, wall_vars, asset_vars, more_vars>>

FlagSpec == FlagInit /\ [][DoFlagTick]_vars

(***************************************************************************)
(* Specification SensorsSpec: WallSensors::update stores what the eight    *)
(* ray casts of the physics engine return; any outcome is possible.        *)
(***************************************************************************)
SensorsInit == CooldownIdle /\ FlagIdle /\ SensorsIdle /\ SolverIdle /\ PlayerIdle /\ WallIdle /\ AssetIdle /\ MoreIdle

DoSensorsUpdate ==
    /\ \E rays \in RayCasts : wall_sensors' = WallSensorsUpdate(wall_sensors, rays)
    /\ UNCHANGED <<cd_vars, flag_vars, solver, player_vars, wall_vars, asset_vars, more_vars>>

SensorsSpec == SensorsInit /\ [][DoSensorsUpdate]_vars

(***************************************************************************)
(* Specification SolverSpec: compute_next_horizontal_velocity called       *)
(* again and again with a fixed input direction and fixed parameters.      *)
(***************************************************************************)
\* calls followed: enough for the widest gap at one quantum per call
SolverCalls == MaxVel + MaxSpeedParam + 1

SolverInit ==
    /\ CooldownIdle /\ FlagIdle /\ SensorsIdle /\ PlayerIdle /\ WallIdle /\ AssetIdle /\ MoreIdle
    /\ \E v \in -MaxVel .. MaxVel, d \in OptSide, hp \in HorizontalControlParams :
          solver = [vel |-> v, input_direction |-> d, hp |-> hp,
                    vel0 |-> v, prev |-> v, calls |-> 0,
                    reached |-> (v = TargetVel(d, hp))]

DoSolverCall ==
    /\ solver.calls < SolverCalls
    /\ LET next == ComputeNextHorizontalVelocity(solver.vel,
                       solver.input_direction, solver.hp)
       IN  solver' = [solver EXCEPT
                         !.vel = next,
                         !.prev = solver.vel,
                         !.calls = @ + 1,
                         !.reached = @ \/ next = TargetVel(solver.input_direction, solver.hp)]
    /\ UNCHANGED <<cd_vars, flag_vars, wall_sensors, player_vars, wall_vars, asset_vars, more_vars>>

SolverSpec == SolverInit /\ [][DoSolverCall]_vars

(***************************************************************************)
(* Specification WallSpec: one PlayerWallControlState ticked with any      *)
(* sensor results, airborne flag and directional inputs.                   *)
(***************************************************************************)
WallParamChoices ==
    {[BaseParams.wall_control_params EXCEPT !.push_away_duration = d] :
        d \in 0 .. MaxPushAway}

\* what the sensors report: anything on the left, open space or a full
\* wall on the right
WallResultChoices ==
    {r \in [Side -> WallSensorResult] : r["Right"] \in {"NotAWall", "Wall"}}

\* the arguments of one call of tick, less control_params
WallTickInputs ==
    [results : WallResultChoices,
     player_is_airborne : BOOLEAN,
     horizontal_input : OptSide,
     horizontal_momentum : OptSide,
     vertical_input : OptYSide]

\* the history of one call: the wall_state it started from, the arguments,
\* the wall_state after the attach step, the returned value, and `streak`:
\* the consecutive calls, this one last, whose push-away step found the
\* machine attached and the input pointing away from the attached side
WallObserve(o, start, in, r) ==
    LET attach == WallAttach(start, in.results, in.player_is_airborne,
                             in.horizontal_input, in.horizontal_momentum)
        away == /\ IsSome(attach)
                /\ in.horizontal_input # "None"
                /\ in.horizontal_input # Unwrap(attach).side
    IN  [ticks |-> Min(o.ticks + 1, 2),
         start |-> start,
         attach |-> attach,
         returned |-> r.returned,
         streak |-> IF ~away THEN 0
                    ELSE IF IsSome(start) THEN Min(o.streak + 1, MaxPushAway + 2)
                    ELSE 1,
         in |-> in]

WallInit ==
    /\ CooldownIdle /\ FlagIdle /\ SensorsIdle /\ SolverIdle /\ PlayerIdle /\ AssetIdle /\ MoreIdle
    /\ wall_control = WallControlDefault
    /\ wall_params \in WallParamChoices
    /\ wall_obs = WallObsInit

DoWallTick ==
    /\ \E in \in WallTickInputs :
          LET r == WallControlTick(wall_control, in.results, in.player_is_airborne,
                                   wall_params, in.horizontal_input,
                                   in.horizontal_momentum, in.vertical_input)
          IN  /\ wall_control' = r.wall_state
              /\ wall_obs' = WallObserve(wall_obs, wall_control, in, r)
    /\ UNCHANGED <<cd_vars, flag_vars, wall_sensors, solver, player_vars, wall_params, asset_vars, more_vars>>

WallSpec == WallInit /\ [][DoWallTick]_vars

(***************************************************************************)
(* Specification Spec: player_system ticking one player from the default   *)
(* PlayerControlState, with the params asset loaded and a cuboid collider. *)
(* Every tick draws the keyboard state, the controller output of the       *)
(* previous physics step and the ray-cast results.                         *)
(***************************************************************************)
\* "max_jumps: 1, // can be set to 2, to allow double-jump" (main.rs:250);
\* the double-jump player also gets no coyote time
DoubleJumpParams == [BaseParams EXCEPT !.max_jumps = 2, !.coyote_time = 0]

ParamChoices == {BaseParams, DoubleJumpParams}

\* hits of the four probes of one side, bottom probe first
NoHits == <<FALSE, FALSE, FALSE, FALSE>>

LedgeHits == <<TRUE, TRUE, FALSE, FALSE>>

WallHits == <<TRUE, TRUE, TRUE, FALSE>>

RaysOf(left, right) ==
    [i \in SensorIndex |-> [s \in Side |-> IF s = "Left" THEN left[i] ELSE right[i]]]

\* ray-cast results: open space, a wall to the right, a ledge to the left
RayChoices == {RaysOf(NoHits, NoHits), RaysOf(NoHits, WallHits), RaysOf(LedgeHits, NoHits)}

\* controller output: nothing touched, or a corner: a wall and the floor
CollisionChoices ==
    {<< >>,
     <<[platform |-> TRUE, details |-> Some(Vec2(1, 0))],
       [platform |-> TRUE, details |-> Some(Vec2(0, 1))]>>}

\* held keys: none, or one of left, right, up, down
HeldKeys ==
    {k \in [left : BOOLEAN, right : BOOLEAN, up : BOOLEAN, down : BOOLEAN] :
        Cardinality({f \in {"left", "right", "up", "down"} : k[f]}) <= 1}

TickInputs ==
    {[jump_pressed |-> jp, grounded |-> g,
      left |-> k.left, right |-> k.right, up |-> k.up, down |-> k.down,
      collisions |-> c, rays |-> rays] :
        jp \in BOOLEAN, g \in BOOLEAN, k \in HeldKeys,
        c \in CollisionChoices, rays \in RayChoices}

\* the history kept beside the state: what the tick decided, and counts
\* over the current run of ungrounded ticks
Observe(o, p, r, in) ==
    [now |-> o.now + 1,
     jump |-> r.jump,
     penalty |-> r.penalty,
     was_jumping |-> p.jumping,
     cooldown_ready |-> r.cooldown_ready,
     player_wall_state |-> r.player_wall_state,
     ever_grounded |-> o.ever_grounded \/ in.grounded,
     air_ticks |-> IF in.grounded THEN 0 ELSE o.air_ticks + 1,
     penalties |-> (IF in.grounded THEN 0 ELSE o.penalties)
                   + (IF r.penalty THEN 1 ELSE 0),
     episode_jumps |-> (IF in.grounded THEN 0 ELSE o.episode_jumps)
                       + (IF r.jump # "None" THEN 1 ELSE 0)]

Init ==
    /\ CooldownIdle /\ FlagIdle /\ SensorsIdle /\ SolverIdle /\ WallIdle /\ AssetIdle /\ MoreIdle
    /\ player = PlayerControlStateDefault
    /\ params \in ParamChoices
    /\ obs = ObsInit
    /\ wj_obs = WjObsInit

Tick ==
    /\ obs.now < MaxTicks
    /\ \E in \in TickInputs :
          LET r == PlayerSystem(player, wall_sensors, params, in)
          IN  /\ player' = r.player
              /\ wall_sensors' = r.wall_sensors
              /\ obs' = Observe(obs, player, r, in)
    /\ UNCHANGED <<cd_vars, flag_vars, solver, params, wall_vars, wj_obs, asset_vars, more_vars>>

Next == Tick

Spec == Init /\ [][Next]_vars

(***************************************************************************)
(* Specification WallJumpSpec: player_system ticking one player beside     *)
(* walls, with parameters that differ in the input buffer, the wall-jump   *)
(* input cooldown and the run profile. No collision is reported and only   *)
(* the horizontal keys are held.                                           *)
(***************************************************************************)
\* a long input lockout and no input buffer
LockoutParams ==
    [BaseParams EXCEPT !.wall_jump_input_cooldown = 3, !.jump_input_buffer = 0]

\* a fast runner that floats with little drag, as setup_player's
\* run.max_speed 90 against float.deceleration 15
FastRunParams ==
    [BaseParams EXCEPT !.run = [max_speed |-> 6, acceleration |-> 6, deceleration |-> 2],
                       !.float = [max_speed |-> 2, acceleration |-> 1, deceleration |-> 1],
                       !.wall_jump_input_cooldown = 2,
                       !.jump_input_buffer = 2]

WallJumpParamChoices == {BaseParams, LockoutParams, FastRunParams}

WallJumpTickInputs ==
    {[jump_pressed |-> jp, grounded |-> g,
      left |-> k.left, right |-> k.right, up |-> FALSE, down |-> FALSE,
      collisions |-> << >>, rays |-> rays] :
        jp \in BOOLEAN, g \in BOOLEAN,
        k \in {h \in HeldKeys : ~h.up /\ ~h.down},
        rays \in RayChoices}

WjObserve(o, r, in) ==
    [now |-> o.now + 1,
     jump |-> r.jump,
     wants_to_jump |-> r.wants_to_jump,
     cooldown_ready |-> r.cooldown_ready,
     player_wall_state |-> r.player_wall_state,
     jumps_before_jump |-> r.jumps_before_jump,
     desired |-> r.desired,
     horizontal_input |-> r.horizontal_input,
     since_press |-> IF in.jump_pressed THEN 0
                     ELSE IF o.since_press = Never THEN Never
                     ELSE o.since_press + 1,
     since_wall_jump |-> IF r.jump = "Wall" THEN 0
                         ELSE IF o.since_wall_jump = Never THEN Never
                         ELSE o.since_wall_jump + 1,
     wall_jump_side |-> IF r.jump = "Wall" THEN Unwrap(r.player_wall_state).side
                        ELSE o.wall_jump_side]

WallJumpInit ==
    /\ CooldownIdle /\ FlagIdle /\ SensorsIdle /\ SolverIdle /\ WallIdle /\ AssetIdle /\ MoreIdle
    /\ player = PlayerControlStateDefault
    /\ params \in WallJumpParamChoices
    /\ obs = ObsInit
    /\ wj_obs = WjObsInit

WallJumpTick ==
    /\ wj_obs.now < MaxWallJumpTicks
    /\ \E in \in WallJumpTickInputs :
          LET r == PlayerSystem(player, wall_sensors, params, in)
          IN  /\ player' = r.player
              /\ wall_sensors' = r.wall_sensors
              /\ wj_obs' = WjObserve(wj_obs, r, in)
    /\ UNCHANGED <<cd_vars, flag_vars, solver, params, obs, wall_vars, asset_vars, more_vars>>

WallJumpSpec == WallJumpInit /\ [][WallJumpTick]_vars

(***************************************************************************)
(* Specification AssetSpec: player_system ticking while the asset server   *)
(* loads the player's PlayerControlParams: the asset is absent until the   *)
(* loader has returned it.                                                 *)
(***************************************************************************)
\* PlayerAssetLoader::load returned Ok(player): the asset is there from now on
AssetLoaded ==
    /\ asset = None
    /\ \E pp \in ParamChoices : asset' = Some(pp)
    /\ UNCHANGED <<cd_vars, flag_vars, wall_sensors, solver, player_vars, wall_vars,
                   controller, asset_obs, more_vars>>

\* what a tick reads: the jump key, the grounded report, Right held or no
\* key, open space or a wall on the right
AssetTickInputs ==
    {in \in WallJumpTickInputs :
        ~in.left /\ in.rays \in {RaysOf(NoHits, NoHits), RaysOf(NoHits, WallHits)}}

AssetTick ==
    /\ asset_obs.now < MaxAssetTicks
    /\ \E in \in AssetTickInputs :
          LET r == PlayerSystemBody(player, wall_sensors, controller, asset, in)
          IN  /\ player' = r.player
              /\ wall_sensors' = r.wall_sensors
              /\ controller' = r.controller
              /\ asset_obs' = [now |-> asset_obs.now + 1,
                               loaded |-> r.loaded,
                               jump_pressed |-> in.jump_pressed,
                               before |-> [player |-> player,
                                           wall_sensors |-> wall_sensors,
                                           controller |-> controller]]
    /\ UNCHANGED <<cd_vars, flag_vars, solver, params, obs, wj_obs, wall_vars, asset, more_vars>>

AssetInit ==
    /\ CooldownIdle /\ FlagIdle /\ SensorsIdle /\ SolverIdle /\ PlayerIdle
    /\ WallIdle /\ AssetIdle /\ MoreIdle

AssetNext == AssetLoaded \/ AssetTick

AssetSpec == AssetInit /\ [][AssetNext]_vars

(***************************************************************************)
(* Claims about the timers: CooldownSpec and FlagSpec.                     *)
(***************************************************************************)
\* C1: after reset(D), is_ready() is false after k tick() calls for every
\* k < D and true after k tick() calls for every k >= D, however many
\* further ticks follow; with D = 0 it is ready at once.
C1_CooldownReadyAfterD == CooldownIsReady(cooldown) <=> (cd_ticks >= cd_duration)

\* C1 witness: reset(3), and the third tick has just made the cooldown ready
C1_Witness == cd_duration = 3 /\ cd_ticks = 3 /\ CooldownIsReady(cooldown)

\* number of consecutive FALSE values at the end of the fed sequence
TrailingFalse(fed) ==
    LET n == Len(fed)
        run == {k \in 0 .. n : \A i \in (n - k + 1) .. n : ~fed[i]}
    IN  CHOOSE k \in run : \A j \in run : j <= k

\* C2 as stated: was_set_within(0) is true iff is_set() is true
C2_Original == WasSetWithin(flag, 0) <=> IsSet(flag)

\* C2 amended: was_set_within(0) is true iff tick was fed true on the most
\* recent call or on the call before it (the release tick itself still
\* counts as within 0); is_set() implies was_set_within(0), not conversely.
C2_WithinZeroIffSetNowOrReleasedNow ==
    LET n == Len(flag_fed)
    IN  /\ WasSetWithin(flag, 0) <=>
              (n >= 1 /\ (flag_fed[n] \/ (n >= 2 /\ flag_fed[n - 1])))
        /\ IsSet(flag) <=> (n >= 1 /\ flag_fed[n])

\* C2 witness: the release tick: fed true, then false
C2_Witness ==
    /\ Len(flag_fed) = 2 /\ flag_fed[1] /\ ~flag_fed[2]
    /\ WasSetWithin(flag, 0) /\ ~IsSet(flag)

\* C3 as stated: a tick(true) followed by exactly N >= 1 tick(false) calls
\* gives was_set_within(N) and not was_set_within(N-1)
C3_Original ==
    LET n == Len(flag_fed)
        N == TrailingFalse(flag_fed)
    IN  (N >= 1 /\ n > N) =>
            (WasSetWithin(flag, N) /\ ~WasSetWithin(flag, N - 1))

\* C3 amended: a tick(true) followed by exactly N >= 1 consecutive
\* tick(false) calls leaves time_since_released = N - 1: was_set_within(d)
\* is true exactly for d >= N - 1, so was_set_within(N-1) is true and, for
\* N >= 2, was_set_within(N-2) is false.
C3_ReleasedCountsFromReleaseTick ==
    LET n == Len(flag_fed)
        N == TrailingFalse(flag_fed)
    IN  (N >= 1 /\ n > N) =>
            /\ \A d \in 0 .. MaxFlagTicks : WasSetWithin(flag, d) <=> (d >= N - 1)
            /\ WasSetWithin(flag, N - 1)
            /\ (N >= 2 => ~WasSetWithin(flag, N - 2))

\* C3 witness: fed true and then false three times
C3_Witness ==
    /\ Len(flag_fed) = 4 /\ flag_fed[1] /\ TrailingFalse(flag_fed) = 3
    /\ WasSetWithin(flag, 2) /\ ~WasSetWithin(flag, 1)

(***************************************************************************)
(* Claims about the wall sensors: SensorsSpec.                             *)
(***************************************************************************)
\* the hits of one side, top probe first: 0b0001 is <<F, F, F, T>>
HitPattern(ws, side) == <<ws[4][side], ws[3][side], ws[2][side], ws[1][side]>>

\* C4: interpret(side) depends only on the four hit bits of that side:
\* 0b0001 is Step, 0b0011 is Ledge, 0b0111, 0b1111 and 0b1110 are Wall, every
\* other pattern is NotAWall; the opposite side's bits never matter.
C4_InterpretTable ==
    \A side \in Side :
        LET p == HitPattern(wall_sensors, side)
            expected ==
                IF p = <<FALSE, FALSE, FALSE, TRUE>> THEN "Step"
                ELSE IF p = <<FALSE, FALSE, TRUE, TRUE>> THEN "Ledge"
                ELSE IF p \in {<<FALSE, TRUE, TRUE, TRUE>>,
                               <<TRUE, TRUE, TRUE, TRUE>>,
                               <<TRUE, TRUE, TRUE, FALSE>>} THEN "Wall"
                ELSE "NotAWall"
        IN  /\ Interpret(wall_sensors, side) = expected
            /\ \A other \in [SensorIndex -> BOOLEAN] :
                  Interpret([i \in SensorIndex |->
                                [wall_sensors[i] EXCEPT ![NegSide(side)] = other[i]]],
                            side) = expected

\* C4 witness: an update recorded 0b1110 on the left and 0b0001 on the right
C4_Witness ==
    /\ HitPattern(wall_sensors, "Left") = <<TRUE, TRUE, TRUE, FALSE>>
    /\ HitPattern(wall_sensors, "Right") = <<FALSE, FALSE, FALSE, TRUE>>
    /\ Interpret(wall_sensors, "Left") = "Wall"
    /\ Interpret(wall_sensors, "Right") = "Step"

(***************************************************************************)
(* Claims about the horizontal solver: SolverSpec.                         *)
(***************************************************************************)
SolverTarget == TargetVel(solver.input_direction, solver.hp)

SolverPositiveRates == solver.hp.acceleration > 0 /\ solver.hp.deceleration > 0

\* the starting velocity is above max_speed in the direction of the input
SolverStartsAboveCap ==
    /\ solver.input_direction # "None"
    /\ solver.vel0 # 0
    /\ Signum(solver.vel0) = MulSide(1, solver.input_direction)
    /\ Abs(solver.vel0) > solver.hp.max_speed

\* C5 as stated: from any starting velocity, with positive acceleration and
\* deceleration, repeated calls reach target_vel and then return it always
C5_Original ==
    SolverPositiveRates =>
        /\ solver.calls = SolverCalls => solver.vel = SolverTarget
        /\ solver.reached => solver.vel = SolverTarget

\* C5 amended: with positive acceleration and deceleration, and a starting
\* velocity that is not above max_speed in the direction of the input,
\* repeated calls reach exactly target_vel after finitely many calls (at
\* most one per quantum of the starting gap) and every later call returns
\* target_vel. A velocity above max_speed in the input's direction is kept.
C5_ConvergesUnlessAboveCap ==
    (SolverPositiveRates /\ ~SolverStartsAboveCap) =>
        /\ solver.calls >= Abs(SolverTarget - solver.vel0) => solver.vel = SolverTarget
        /\ solver.reached => solver.vel = SolverTarget

\* C5 witness: a start moving against the input has converged and held
C5_Witness ==
    /\ SolverPositiveRates
    /\ solver.vel0 < 0 /\ solver.input_direction = "Right"
    /\ solver.hp.max_speed = MaxSpeedParam
    /\ solver.calls = SolverCalls
    /\ solver.vel = SolverTarget

\* C6: the velocity a call returns lies between the current velocity and
\* target_vel inclusive, and is exactly target_vel whenever the gap
\* |target_vel - current| is smaller than the acceleration chosen for the call.
C6_NeverOvershoots ==
    solver.calls > 0 =>
        LET lo == IF solver.prev <= SolverTarget THEN solver.prev ELSE SolverTarget
            hi == IF solver.prev <= SolverTarget THEN SolverTarget ELSE solver.prev
        IN  /\ lo <= solver.vel /\ solver.vel <= hi
            /\ Abs(SolverTarget - solver.prev)
                   < AccelBase(solver.prev, solver.input_direction, solver.hp)
               => solver.vel = SolverTarget

\* C6 witness: a call whose gap was smaller than its acceleration snapped
C6_Witness ==
    /\ solver.calls > 0
    /\ solver.prev # SolverTarget
    /\ Abs(SolverTarget - solver.prev) < solver.hp.acceleration
    /\ Abs(SolverTarget - solver.prev) > 0
    /\ solver.hp.acceleration > 1
    /\ solver.vel = SolverTarget

(***************************************************************************)
(* Claims about the jump resource in the tick: Spec.                       *)
(***************************************************************************)
\* C7: on a tick where the grounded flag is set, the jump key was pressed
\* this tick, the jump cooldown is ready and max_jumps = 1, the tick ends
\* with own_velocity.y = jump_speed, jumps_remaining = 0, jumping = true and
\* the jump cooldown reset to the jump_cooldown parameter.
C7_GroundedJump ==
    (/\ obs.now > 0
     /\ IsSet(player.grounded)
     /\ IsSet(player.jump_requested)
     /\ obs.cooldown_ready
     /\ params.max_jumps = 1)
    => (/\ obs.jump = "Normal"
        /\ player.own_velocity.y = params.jump_speed
        /\ player.jumps_remaining = 0
        /\ player.jumping
        /\ player.jump_cooldown = params.jump_cooldown)

\* C7 witness: such a tick has run, and it was not the very first tick
C7_Witness ==
    /\ obs.now > 1
    /\ IsSet(player.grounded) /\ IsSet(player.jump_requested)
    /\ obs.cooldown_ready /\ params.max_jumps = 1
    /\ player.own_velocity.y = params.jump_speed

\* the player was grounded, has been ungrounded on every tick since, and no
\* jump has fired on the grounded tick or after it
FellOffWithoutJumping ==
    obs.ever_grounded /\ obs.air_ticks >= 1 /\ obs.episode_jumps = 0

\* C8 as stated: jumps_remaining is max_jumps up to tick T + coyote_time and
\* decremented by the end of tick T + coyote_time + 1
C8_Original ==
    FellOffWithoutJumping =>
        /\ obs.air_ticks <= params.coyote_time =>
              player.jumps_remaining = params.max_jumps
        /\ obs.air_ticks = params.coyote_time + 1 =>
              /\ player.jumps_remaining = params.max_jumps - 1
              /\ player.lost_jump_due_to_falling

\* C8 amended: grounded on tick T and ungrounded on every following tick
\* with no jump firing, jumps_remaining is still max_jumps (and no penalty
\* has been charged) on ticks T+1 .. T+coyote_time+1, and has been
\* decremented by exactly 1, with lost_jump_due_to_falling set, by the end
\* of tick T+coyote_time+2: the grounded flag counts from its release tick.
C8_PenaltyAfterCoyotePlusTwo ==
    FellOffWithoutJumping =>
        /\ obs.air_ticks <= params.coyote_time + 1 =>
              /\ player.jumps_remaining = params.max_jumps
              /\ ~player.lost_jump_due_to_falling
              /\ obs.penalties = 0
        /\ obs.air_ticks >= params.coyote_time + 2 =>
              /\ player.jumps_remaining = params.max_jumps - 1
              /\ player.lost_jump_due_to_falling
              /\ obs.penalties = 1
        /\ obs.penalty <=> obs.air_ticks = params.coyote_time + 2

\* C8 witness: the penalty tick itself, with a coyote time of one tick
C8_Witness ==
    /\ FellOffWithoutJumping
    /\ params.coyote_time = 1
    /\ obs.air_ticks = params.coyote_time + 2
    /\ obs.penalty
    /\ player.jumps_remaining = params.max_jumps - 1

\* C9: within a run of consecutive ungrounded ticks the fall-off decrement
\* of jumps_remaining is applied on at most one tick, and never on a tick
\* that began with jumping = true.
C9_PenaltyAtMostOncePerEpisode ==
    /\ obs.penalties <= 1
    /\ obs.penalty => ~obs.was_jumping
    /\ obs.penalty => ~IsSet(player.grounded)

\* C9 witness: an ungrounded tick after the penalty tick of the same run,
\* with jumping false, on which the penalty was not charged again
C9_Witness ==
    /\ obs.penalties = 1
    /\ ~obs.penalty
    /\ ~IsSet(player.grounded)
    /\ ~obs.was_jumping
    /\ ~player.jumping
    /\ ~WasSetWithin(player.grounded, params.coyote_time)

\* C10: jumps_remaining is within [0, max_jumps] after every tick, for every
\* sequence of inputs, grounded reports, sensor readings and jumps.
C10_JumpsRemainingInRange ==
    /\ player.jumps_remaining >= 0
    /\ player.jumps_remaining <= params.max_jumps

\* C10 witness: the second jump of a double jump has just used the last jump
C10_Witness ==
    /\ params.max_jumps = 2
    /\ obs.jump = "Normal"
    /\ obs.episode_jumps = 2
    /\ player.jumps_remaining = 0

(***************************************************************************)
(* Claims about the wall state machine: WallSpec.                          *)
(***************************************************************************)
\* C11: whenever tick ends Attached{side, wall_type} it returns
\* Climbing(side) if wall_type is Ledge and (vertical input is Up or
\* horizontal input equals side), otherwise Grabbed(side) if horizontal
\* input equals side, otherwise Sliding(side); it returns None exactly when
\* it ends Detached. A ledge with input toward it is Climbing, never Grabbed.
C11_OutputClassification ==
    wall_obs.ticks > 0 =>
        /\ (wall_obs.returned = None) <=> (wall_control = None)
        /\ wall_control # None =>
              LET side == wall_control[1].side
                  toward == wall_obs.in.horizontal_input = side
                  up == wall_obs.in.vertical_input = "Up"
                  kind == IF wall_control[1].wall_type = "Ledge" /\ (up \/ toward)
                          THEN "Climbing"
                          ELSE IF toward THEN "Grabbed" ELSE "Sliding"
              IN  wall_obs.returned = <<[kind |-> kind, side |-> side]>>

\* C11 witness: attached to a ledge with the input held toward it, not Up:
\* the tick returned Climbing
C11_Witness ==
    /\ wall_obs.ticks > 0
    /\ wall_control # None
    /\ wall_control[1].wall_type = "Ledge"
    /\ wall_obs.in.horizontal_input = wall_control[1].side
    /\ wall_obs.in.vertical_input = "None"
    /\ wall_obs.returned = <<[kind |-> "Climbing", side |-> wall_control[1].side]>>

\* C12: after every call of tick, if the machine is Attached then the
\* player was airborne, vertical input was not Down, the sensor on the
\* attached side reads Wall or Ledge, and the stored wall_type is Wall or
\* Ledge. Equivalently a tick with the player grounded, with Down held, or
\* with the attached side's sensor reading Step or NotAWall ends Detached,
\* also when the attach step fired earlier in the same tick.
C12_ReleaseInvariant ==
    wall_obs.ticks > 0 =>
        /\ wall_control # None =>
              /\ wall_obs.in.player_is_airborne
              /\ wall_obs.in.vertical_input # "Down"
              /\ wall_obs.in.results[wall_control[1].side] \in {"Wall", "Ledge"}
              /\ wall_control[1].wall_type \in {"Wall", "Ledge"}
        /\ (/\ wall_obs.attach # None
             /\ \/ ~wall_obs.in.player_is_airborne
                \/ wall_obs.in.vertical_input = "Down"
                \/ wall_obs.in.results[wall_obs.attach[1].side] \in {"Step", "NotAWall"})
           => wall_control = None

\* C12 witness: a machine attached by an earlier tick met a sensor that
\* degraded to Step, with the player airborne, Down not held and no push
\* away: the tick ended Detached
C12_Witness ==
    /\ wall_obs.ticks > 1
    /\ wall_obs.start # None
    /\ wall_obs.in.player_is_airborne
    /\ wall_obs.in.vertical_input = "None"
    /\ wall_obs.in.horizontal_input = "None"
    /\ wall_obs.in.results[wall_obs.start[1].side] = "Step"
    /\ wall_control = None

\* the side the attach step tests: the momentum if it is Some, else the input
WallTestedSide ==
    IF wall_obs.in.horizontal_momentum # "None"
    THEN wall_obs.in.horizontal_momentum
    ELSE wall_obs.in.horizontal_input

\* C13: starting a tick Detached, the machine creates an attachment only
\* if the player is airborne and the tested side (the momentum if Some,
\* otherwise the input) exists and its sensor reads Wall or Ledge; the
\* attachment is to the tested side, with push_away_timer = 0 and wall_type
\* that reading. With a momentum the input side is never tested; Step and
\* NotAWall never attach.
C13_AttachRule ==
    (wall_obs.ticks > 0 /\ wall_obs.start = None) =>
        /\ wall_obs.attach # None =>
              /\ wall_obs.in.player_is_airborne
              /\ WallTestedSide # "None"
              /\ wall_obs.in.results[WallTestedSide] \in {"Wall", "Ledge"}
              /\ wall_obs.attach =
                     <<[side |-> WallTestedSide, push_away_timer |-> 0,
                        wall_type |-> wall_obs.in.results[WallTestedSide]]>>
        /\ wall_control # None =>
              /\ wall_obs.attach # None
              /\ wall_control[1].side = WallTestedSide
              /\ wall_control[1].wall_type = wall_obs.in.results[WallTestedSide]

\* C13 witness: a momentum to the left with a ledge there, the input held
\* right with a wall there: the machine attached to the ledge on the left
C13_Witness ==
    /\ wall_obs.ticks > 0 /\ wall_obs.start = None
    /\ wall_obs.in.horizontal_momentum = "Left"
    /\ wall_obs.in.horizontal_input = "Right"
    /\ wall_obs.in.results["Right"] = "Wall"
    /\ wall_obs.attach # None
    /\ wall_control # None
    /\ wall_control[1].side = "Left"
    /\ wall_control[1].wall_type = "Ledge"

\* the push-away step of the latest tick found the machine attached and no
\* other release applied: airborne, Down not held, the sensor still good
WallOnlyPushCanRelease ==
    /\ wall_obs.ticks > 0
    /\ wall_obs.attach # None
    /\ wall_obs.in.player_is_airborne
    /\ wall_obs.in.vertical_input # "Down"
    /\ wall_obs.in.results[wall_obs.attach[1].side] \in {"Wall", "Ledge"}

WallPushingAway ==
    /\ wall_obs.in.horizontal_input # "None"
    /\ wall_obs.in.horizontal_input # wall_obs.attach[1].side

\* C14: while Attached, and no other release condition holding, the
\* machine detaches on the tick at which the input has pointed away from
\* the attached side for push_away_duration consecutive ticks and on no
\* earlier tick of that streak; a tick whose input is none or toward the
\* wall resets push_away_timer to 0, so the streak starts over.
C14_PushAwayRelease ==
    WallOnlyPushCanRelease =>
        /\ (wall_control = None) <=>
              (WallPushingAway /\ wall_obs.streak >= wall_params.push_away_duration)
        /\ ~WallPushingAway =>
              (wall_control # None /\ wall_control[1].push_away_timer = 0)
        /\ (WallPushingAway /\ wall_obs.streak < wall_params.push_away_duration) =>
              (wall_control # None /\ wall_control[1].push_away_timer = wall_obs.streak)

\* C14 witness: with push_away_duration = 2, a machine attached by an
\* earlier tick that had pushed away for one tick let go on the second
C14_Witness ==
    /\ WallOnlyPushCanRelease
    /\ wall_params.push_away_duration = 2
    /\ wall_obs.start # None
    /\ wall_obs.start[1].push_away_timer = 1
    /\ WallPushingAway
    /\ wall_obs.streak = 2
    /\ wall_control = None

(***************************************************************************)
(* Claims about the wall jump, the input buffer and the input lockout:     *)
(* WallJumpSpec.                                                           *)
(***************************************************************************)
\* C15: on a tick where wants_to_jump holds, the jump cooldown is ready and
\* the wall machine returned Grabbed, Sliding or Climbing, a wall jump
\* fires whatever jumps_remaining is (also 0), the normal-jump branch does
\* not run, and the jump step leaves jumps_remaining unchanged.
C15_WallJumpCostsNoJump ==
    (/\ wj_obs.now > 0
     /\ wj_obs.wants_to_jump
     /\ wj_obs.cooldown_ready
     /\ wj_obs.player_wall_state # None)
    => (/\ wj_obs.jump = "Wall"
        /\ player.jumps_remaining = wj_obs.jumps_before_jump)

\* C15 witness: a wall jump fired from a slide with no jump left
C15_Witness ==
    /\ wj_obs.now > 0
    /\ wj_obs.wants_to_jump /\ wj_obs.cooldown_ready
    /\ wj_obs.player_wall_state # None
    /\ wj_obs.player_wall_state[1].kind = "Sliding"
    /\ wj_obs.jumps_before_jump = 0
    /\ wj_obs.jump = "Wall"
    /\ player.jumps_remaining = 0

\* C16: at the end of a tick on which a wall jump fired from a wall on side
\* S, the wall machine is Detached, wall_jump_latest_side is Some(S),
\* wall_jump_force has age 0 and a peak whose x points away from S (negative
\* for Right, positive for Left) and whose y is 0, own_velocity.y is the
\* positive jump kick, jumping is true, and jump_cooldown and
\* wall_jump_input_cooldown hold their configured durations.
C16_WallJumpPostcondition ==
    wj_obs.jump = "Wall" =>
        LET S == wj_obs.player_wall_state[1].side
        IN  /\ player.wall_control_state = None
            /\ player.wall_jump_latest_side = S
            /\ player.wall_jump_force.age = 0
            /\ player.wall_jump_force.max.y = 0
            /\ S = "Right" => player.wall_jump_force.max.x < 0
            /\ S = "Left" => player.wall_jump_force.max.x > 0
            /\ player.own_velocity.y > 0
            /\ player.own_velocity.y = MulFrac1Sqrt2(params.jump_speed)
            /\ player.jumping
            /\ player.jump_cooldown = params.jump_cooldown
            /\ player.wall_jump_input_cooldown = params.wall_jump_input_cooldown

\* C16 witness: a wall jump from a ledge on the left, after one from the
\* wall on the right earlier in the run
C16_Witness ==
    /\ wj_obs.jump = "Wall"
    /\ wj_obs.now > 2
    /\ wj_obs.player_wall_state[1].side = "Left"
    /\ player.wall_jump_latest_side = "Left"
    /\ player.wall_jump_force.max.x > 0
    /\ player.wall_control_state = None

\* C17 as stated: if a wall jump from the wall on side S fires on tick T,
\* then on tick T+1 the wall machine does not attach to side S, whatever
\* the parameters and the inputs of tick T+1.
C17_Original ==
    wj_obs.since_wall_jump = 1 =>
        ~(/\ player.wall_control_state # None
          /\ player.wall_control_state[1].side = wj_obs.wall_jump_side)

\* C18 as stated: on every tick t, wants_to_jump is true iff the jump key
\* was just-pressed on tick t or on one of the jump_input_buffer ticks
\* before it; an older press never makes wants_to_jump true
C18_Original ==
    wj_obs.now > 0 =>
        (wj_obs.wants_to_jump <=>
            (wj_obs.since_press # Never
             /\ wj_obs.since_press <= params.jump_input_buffer))

\* C18 amended: on every tick t, wants_to_jump is true iff the jump key was
\* just-pressed on tick t or on one of the jump_input_buffer + 1 ticks
\* before it (some tick in [t - jump_input_buffer - 1, t]); a press older
\* than jump_input_buffer + 1 ticks never makes wants_to_jump true.
C18_BufferWindowPlusOne ==
    wj_obs.now > 0 =>
        (wj_obs.wants_to_jump <=>
            (wj_obs.since_press # Never
             /\ wj_obs.since_press <= params.jump_input_buffer + 1))

\* C18 witness: with a buffer of one tick, a press two ticks old still
\* gives wants_to_jump
C18_Witness ==
    /\ params.jump_input_buffer = 1
    /\ wj_obs.since_press = 2
    /\ wj_obs.wants_to_jump

\* the latest wall jump fired k >= 1 ticks before the latest tick
WallJumpedBefore == wj_obs.since_wall_jump # Never /\ wj_obs.since_wall_jump >= 1

\* the held horizontal input with the side of the latest wall jump dropped
WallJumpHeldLessSide ==
    IF wj_obs.desired = wj_obs.wall_jump_side THEN "None" ELSE wj_obs.desired

\* C19 as stated: after a wall jump from side S on tick T, on each of the
\* ticks T+1 .. T+wall_jump_input_cooldown a held input equal to S is
\* treated as no input and input away from S passes unchanged; after that
\* input toward S is no longer suppressed
C19_Original ==
    WallJumpedBefore =>
        wj_obs.horizontal_input =
            IF wj_obs.since_wall_jump <= params.wall_jump_input_cooldown
            THEN WallJumpHeldLessSide
            ELSE wj_obs.desired

\* C19 amended: after a wall jump from side S on tick T, on each of the
\* wall_jump_input_cooldown - 1 ticks T+1 .. T+wall_jump_input_cooldown-1 a
\* held horizontal input equal to S is treated as no input, while input
\* pointing away from S is passed through unchanged; from tick
\* T+wall_jump_input_cooldown on (the cooldown is ready on that tick) input
\* toward S is no longer suppressed.
C19_LockoutOneTickShorter ==
    WallJumpedBefore =>
        wj_obs.horizontal_input =
            IF wj_obs.since_wall_jump < params.wall_jump_input_cooldown
            THEN WallJumpHeldLessSide
            ELSE wj_obs.desired

\* C19 witness: with a cooldown of three ticks, input held toward the wall
\* two ticks after the wall jump is dropped
C19_Witness ==
    /\ params.wall_jump_input_cooldown = 3
    /\ wj_obs.since_wall_jump = 2
    /\ wj_obs.desired = wj_obs.wall_jump_side
    /\ wj_obs.horizontal_input = "None"

(***************************************************************************)
(* Claims about the params asset: AssetSpec.                               *)
(***************************************************************************)
\* C20: on a tick where the player's PlayerControlParams asset is absent no
\* field of PlayerControlState changes (no timer or capacitive flag is
\* ticked, a jump press of that tick is not recorded, velocity and wall
\* state are untouched) and no displacement request is written to the
\* controller.
C20_NoParamsNoOp ==
    (asset_obs.now > 0 /\ ~asset_obs.loaded) =>
        /\ player = asset_obs.before.player
        /\ wall_sensors = asset_obs.before.wall_sensors
        /\ controller = asset_obs.before.controller
        /\ controller = None

\* C20 witness: the jump key was pressed on a second tick without the
\* asset: the buffer did not record it and the force did not age
C20_Witness ==
    /\ asset_obs.now > 1 /\ ~asset_obs.loaded
    /\ asset_obs.jump_pressed
    /\ ~IsSet(player.jump_requested)
    /\ player.wall_jump_force.age = 0
    /\ controller = None

(***************************************************************************)
(* More claims about the horizontal solver: SolverSpec.                    *)
(***************************************************************************)
\* the latest call started from a nonzero velocity with the input held in
\* the direction of that velocity
SolverCalledWithInputAlong ==
    /\ solver.calls > 0
    /\ solver.prev # 0
    /\ solver.input_direction # "None"
    /\ MulSide(1, solver.input_direction) = Signum(solver.prev)

\* C25: when the current velocity is nonzero, the input direction has the
\* sign of the current velocity and |current| >= max_speed, the solver
\* returns the current velocity unchanged, so a speed above the cap is kept
\* for as long as that input is held.
C25_MomentumPreserved ==
    /\ (SolverCalledWithInputAlong /\ Abs(solver.prev) >= solver.hp.max_speed)
          => solver.vel = solver.prev
    /\ ( /\ solver.vel0 # 0
         /\ solver.input_direction # "None"
         /\ MulSide(1, solver.input_direction) = Signum(solver.vel0)
         /\ Abs(solver.vel0) >= solver.hp.max_speed )
          => solver.vel = solver.vel0

\* C25 witness: a start above the cap, still unchanged after every call
C25_Witness ==
    /\ SolverCalledWithInputAlong
    /\ solver.calls = SolverCalls
    /\ solver.hp.deceleration > 0 /\ solver.hp.acceleration > 0
    /\ Abs(solver.vel0) > solver.hp.max_speed
    /\ solver.hp.max_speed > 0
    /\ solver.vel = solver.vel0

\* the latest call started from a nonzero velocity with the input held
\* against it
SolverCalledWithInputAgainst ==
    /\ solver.calls > 0
    /\ solver.prev # 0
    /\ solver.input_direction # "None"
    /\ MulSide(1, solver.input_direction) # Signum(solver.prev)

\* C26: when the input direction is opposite to the sign of a nonzero
\* current velocity, the velocity a single call returns never has the sign
\* opposite to the current velocity: the velocity is exactly 0 on some tick
\* before it takes the input's sign.
C26_Original ==
    SolverCalledWithInputAgainst =>
        (solver.vel = 0 \/ Signum(solver.vel) = Signum(solver.prev))

(***************************************************************************)
(* More claims about the wall machine: WallSpec.                           *)
(***************************************************************************)
\* the latest tick began and ended Attached
WallStayedAttached ==
    /\ wall_obs.ticks > 0
    /\ IsSome(wall_obs.start)
    /\ IsSome(wall_control)

\* C27: wall_type is frozen at attach time. A tick that begins and ends
\* Attached leaves the stored side and wall_type as they were, whatever the
\* sensor on that side reads (Wall or Ledge); the return value is Climbing
\* only with a stored wall_type of Ledge, so a player attached to a Wall is
\* never Climbing, and with a stored Ledge holding Up or toward the wall
\* always is Climbing.
C27_WallTypeFrozen ==
    /\ WallStayedAttached =>
          /\ Unwrap(wall_control).side = Unwrap(wall_obs.start).side
          /\ Unwrap(wall_control).wall_type = Unwrap(wall_obs.start).wall_type
    /\ (wall_obs.ticks > 0 /\ IsSome(wall_control)) =>
          /\ Unwrap(wall_control).wall_type \in {"Wall", "Ledge"}
          /\ IsSome(wall_obs.returned)
          /\ (Unwrap(wall_obs.returned).kind = "Climbing")
               <=> ( /\ Unwrap(wall_control).wall_type = "Ledge"
                     /\ \/ wall_obs.in.vertical_input = "Up"
                        \/ wall_obs.in.horizontal_input = Unwrap(wall_control).side )

\* C27 witness: attached to a Wall on the left, the sensor there now reads
\* Ledge and the player holds Up and toward it: still a Wall, Grabbed
C27_Witness ==
    /\ WallStayedAttached
    /\ Unwrap(wall_obs.start).wall_type = "Wall"
    /\ Unwrap(wall_obs.start).side = "Left"
    /\ wall_obs.in.results["Left"] = "Ledge"
    /\ wall_obs.in.vertical_input = "Up"
    /\ wall_obs.in.horizontal_input = "Left"
    /\ Unwrap(wall_control).wall_type = "Wall"
    /\ wall_obs.returned = Some([kind |-> "Grabbed", side |-> "Left"])

(***************************************************************************)
(* Specification ColliderSpec: player_system ticking a player whose        *)
(* Collider component may be replaced between ticks by a shape that is no  *)
(* cuboid. A panic of the system unwinds out of the schedule and ends the  *)
(* app: nothing runs once it has panicked.                                 *)
(***************************************************************************)
\* Collider::cuboid (main.rs:270) and Collider::ball (main.rs:154)
ColliderShapes == {"Cuboid", "Ball"}

\* what a tick reads: the jump key, the grounded report, Right held or no
\* key, nothing touched or a wall touched on the right
CrashTickInputs ==
    {[jump_pressed |-> jp, grounded |-> g,
      left |-> FALSE, right |-> r, up |-> FALSE, down |-> FALSE,
      collisions |-> c, rays |-> RaysOf(NoHits, NoHits)] :
        jp \in BOOLEAN, g \in BOOLEAN, r \in BOOLEAN,
        c \in {<< >>, <<[platform |-> TRUE, details |-> Some(Vec2(-1, 0))]>>}}

ColliderInit ==
    /\ CooldownIdle /\ FlagIdle /\ SensorsIdle /\ SolverIdle /\ WallIdle
    /\ AssetIdle /\ MoreIdle
    /\ player = PlayerControlStateDefault
    /\ params = BaseParams
    /\ obs = ObsInit
    /\ wj_obs = WjObsInit

\* the entity's Collider component is replaced
ColliderReplaced ==
    /\ ~panicked
    /\ \E shape \in ColliderShapes \ {collider} : collider' = shape
    /\ UNCHANGED <<cd_vars, flag_vars, wall_sensors, solver, player_vars, wall_vars,
                   asset_vars, move_obs, collide, tforce, panicked, crash_obs,
                   reload_obs,
                   jump_obs>>

ColliderTick ==
    /\ ~panicked
    /\ crash_obs.now < MaxCrashTicks
    /\ \E in \in CrashTickInputs :
          LET r == PlayerSystemWithCollider(player, wall_sensors, controller,
                                            collider, params, in)
          IN  /\ player' = r.player
              /\ wall_sensors' = r.wall_sensors
              /\ controller' = r.controller
              /\ panicked' = r.panicked
              /\ crash_obs' = [now |-> crash_obs.now + 1,
                               before |-> [player |-> player,
                                           wall_sensors |-> wall_sensors,
                                           controller |-> controller],
                               shape |-> collider,
                               in |-> <<in>>]
    /\ UNCHANGED <<cd_vars, flag_vars, solver, params, obs, wj_obs, wall_vars,
                   asset, asset_obs, move_obs, collide, tforce, collider,
                   reload_obs,
                   jump_obs>>

ColliderNext == ColliderReplaced \/ ColliderTick

ColliderSpec == ColliderInit /\ [][ColliderNext]_vars

\* the fields of the PlayerControlState that only the steps after
\* as_cuboid() write
LateFields(p) ==
    [jumping |-> p.jumping,
     lost_jump_due_to_falling |-> p.lost_jump_due_to_falling,
     jumps_remaining |-> p.jumps_remaining,
     wall_jump_latest_side |-> p.wall_jump_latest_side,
     wall_control_state |-> p.wall_control_state,
     previous_total_velocity |-> p.previous_total_velocity,
     max |-> p.wall_jump_force.max]

\* C21: a tick with a collider that is no cuboid ends in a panic: the wall
\* state machine, the velocity update and the jump resolution have not
\* run (the fields they write, the wall sensors and own_velocity but for
\* the collision loop are as the tick found them), no translation is
\* written to the controller, and no tick ever starts from the state the
\* panic left, which has the timers ticked and own_velocity arrested; a
\* tick that completes had a cuboid.
C21_NonCuboidIsFatal ==
    /\ panicked =>
          /\ crash_obs.shape # "Cuboid"
          /\ LateFields(player) = LateFields(crash_obs.before.player)
          /\ player.own_velocity =
                 ApplyCollisions(crash_obs.before.player.own_velocity,
                                 crash_obs.in[1].collisions)
          /\ wall_sensors = crash_obs.before.wall_sensors
          /\ controller = crash_obs.before.controller
    /\ (crash_obs.now > 0 /\ ~panicked) =>
          /\ IsSome(controller)
          /\ crash_obs.shape = "Cuboid"
    /\ panicked => ~ENABLED ColliderNext

\* C21 witness: a tick with a ball collider panicked on the second tick,
\* after its collision loop had arrested a nonzero own_velocity and its
\* timers had ticked
C21_Witness ==
    /\ panicked
    /\ crash_obs.now = 2
    /\ crash_obs.shape = "Ball"
    /\ crash_obs.before.player.own_velocity.x > 0
    /\ player.own_velocity.x = 0
    /\ player.grounded # crash_obs.before.player.grounded
    /\ IsSome(controller)

(***************************************************************************)
(* Specification ReloadSpec: player_system ticking while the asset server  *)
(* replaces the loaded PlayerControlParams. The system holds               *)
(* Res<Assets<PlayerControlParams>> for its whole run and binds            *)
(* player_params once, so the asset changes between runs only.             *)
(***************************************************************************)
\* the params file after an edit of every number in it
TunedParams ==
    [run |-> [max_speed |-> 2, acceleration |-> 2, deceleration |-> 1],
     float |-> [max_speed |-> 1, acceleration |-> 1, deceleration |-> 1],
     jump_speed |-> 3,
     gravity |-> -1,
     coyote_time |-> 0,
     jump_input_buffer |-> 0,
     max_jumps |-> 2,
     jump_cooldown |-> 1,
     wall_jump_force_decay |-> [easing |-> "Linear", duration |-> 3],
     wall_jump_input_cooldown |-> 2,
     wall_control_params |->
         [push_away_duration |-> 1,
          slide_max_speed |-> 1,
          slide_acceleration |-> 1,
          climb_max_speed |-> 2,
          climb_acceleration |-> 1]]

ReloadParamChoices == {BaseParams, TunedParams}

ReloadInit ==
    /\ CooldownIdle /\ FlagIdle /\ SensorsIdle /\ SolverIdle /\ PlayerIdle
    /\ WallIdle /\ MoreIdle
    /\ asset \in {Some(pp) : pp \in ReloadParamChoices}
    /\ controller = None
    /\ asset_obs = AssetObsInit

\* the asset server swaps in the params read from the changed file
AssetReloaded ==
    /\ IsSome(asset)
    /\ reload_obs.reloads < MaxReloads
    /\ \E pp \in ReloadParamChoices \ {Unwrap(asset)} : asset' = Some(pp)
    /\ reload_obs' = [reload_obs EXCEPT !.reloads = @ + 1, !.fresh = TRUE]
    /\ UNCHANGED <<cd_vars, flag_vars, wall_sensors, solver, player_vars, wall_vars,
                   controller, asset_obs, move_obs, collide, tforce, collider,
                   panicked, crash_obs,
                   jump_obs>>

ReloadTick ==
    /\ reload_obs.now < MaxReloadTicks
    /\ \E in \in AssetTickInputs :
          LET r == PlayerSystemBody(player, wall_sensors, controller, asset, in)
              d == PlayerSystem(player, wall_sensors, Unwrap(asset), in)
          IN  /\ player' = r.player
              /\ wall_sensors' = r.wall_sensors
              /\ controller' = r.controller
              /\ reload_obs' = [now |-> reload_obs.now + 1,
                                reloads |-> reload_obs.reloads,
                                fresh |-> FALSE,
                                snapshot |-> asset,
                                before |-> player,
                                in |-> <<in>>,
                                wants_to_jump |-> d.wants_to_jump,
                                jumps_before_jump |-> d.jumps_before_jump,
                                jump |-> d.jump,
                                player_wall_state |-> d.player_wall_state]
    /\ UNCHANGED <<cd_vars, flag_vars, solver, params, obs, wj_obs, wall_vars,
                   asset, asset_obs, move_obs, collide, tforce, collider,
                   panicked, crash_obs,
                   jump_obs>>

ReloadNext == AssetReloaded \/ ReloadTick

ReloadSpec == ReloadInit /\ [][ReloadNext]_vars

\* the latest tick's snapshot: the asset as it was when the tick started
ReloadSnapshot == Unwrap(reload_obs.snapshot)

\* the horizontal velocity one solver call gives a player at rest
FromRest(side, hp) ==
    MulSide(IF hp.max_speed < hp.acceleration THEN hp.max_speed ELSE hp.acceleration,
            side)

\* C22: every step of a tick reads the params asset as it was when the
\* tick started: the buffer window, the jump refund, the solver profile,
\* gravity, the jump speeds, the cooldown durations and the force decay
\* that show in the state after the tick are all those of that one
\* snapshot, also on the first tick after a reload.
C22_ReloadAtomicPerTick ==
    reload_obs.now > 0 =>
      LET pp == ReloadSnapshot
          b == reload_obs.before
          in == reload_obs.in[1]
          free == reload_obs.player_wall_state = None
      IN  /\ reload_obs.wants_to_jump
                <=> WasSetWithin(player.jump_requested, pp.jump_input_buffer)
          /\ IsSet(player.grounded) => reload_obs.jumps_before_jump = pp.max_jumps
          /\ reload_obs.jump = "Normal" =>
                /\ player.own_velocity.y = pp.jump_speed
                /\ player.jump_cooldown = pp.jump_cooldown
          /\ reload_obs.jump = "Wall" =>
                /\ player.own_velocity.y = MulFrac1Sqrt2(pp.jump_speed)
                /\ player.jump_cooldown = pp.jump_cooldown
                /\ player.wall_jump_input_cooldown = pp.wall_jump_input_cooldown
                /\ Abs(player.wall_jump_force.max.x) = MulFrac1Sqrt2(pp.run.max_speed)
          /\ (reload_obs.jump = "None" /\ ~IsSet(player.grounded) /\ free) =>
                player.own_velocity.y = b.own_velocity.y + pp.gravity
          /\ (b.own_velocity.x = 0 /\ in.right /\ free
                 /\ b.wall_jump_latest_side = "None") =>
                player.own_velocity.x =
                    FromRest("Right", IF IsSet(player.grounded) THEN pp.run ELSE pp.float)
          /\ controller =
                Some(Vec2Add(player.own_velocity,
                             TemporaryForceEval(player.wall_jump_force,
                                                pp.wall_jump_force_decay)))

\* C22 witness: the asset was reloaded between the previous tick and this
\* one, and this tick's jump used the new jump speed and cooldown
C22_Witness ==
    /\ reload_obs.now >= 2
    /\ reload_obs.reloads > 0
    /\ ReloadSnapshot = TunedParams
    /\ reload_obs.before.own_velocity.y = BaseParams.gravity
    /\ reload_obs.jump = "Normal"
    /\ player.own_velocity.y = TunedParams.jump_speed
    /\ player.jump_cooldown = TunedParams.jump_cooldown

(***************************************************************************)
(* Specification CollisionSpec: the collision loop of player_system run    *)
(* once over any short list of reported collisions.                        *)
(***************************************************************************)
\* own_velocity components: small ones, and a fast 50 either way
CollideVelChoices == (-MaxCollideVel .. MaxCollideVel) \cup {-50, 50}

\* contact normals of axis-aligned platforms
AxisNormals == {Vec2(1, 0), Vec2(-1, 0), Vec2(0, 1), Vec2(0, -1)}

\* reports of the character controller: whether the entity touched is a
\* Platform, and the hit details if there are any
CollisionReports ==
    [platform : BOOLEAN, details : {None} \cup {Some(n) : n \in AxisNormals}]

CollisionLists ==
    UNION {[1 .. n -> CollisionReports] : n \in 0 .. MaxCollisions}

CollisionInit ==
    /\ CooldownIdle /\ FlagIdle /\ SensorsIdle /\ SolverIdle /\ PlayerIdle
    /\ WallIdle /\ AssetIdle
    /\ move_obs = MoveObsInit
    /\ tforce = ForceInit(0)
    /\ collider = "Cuboid"
    /\ panicked = FALSE
    /\ crash_obs = CrashObsInit
    /\ reload_obs = ReloadObsInit
    /\ jump_obs = JumpObsInit
    /\ \E vx \in CollideVelChoices, vy \in CollideVelChoices, c \in CollisionLists :
          collide = CollideInit(Vec2(vx, vy), c)

DoApplyCollisions ==
    /\ collide.calls = 0
    /\ collide' = [collide EXCEPT
                      !.out = ApplyCollisions(collide.own_velocity, collide.collisions),
                      !.calls = 1]
    /\ UNCHANGED <<cd_vars, flag_vars, wall_sensors, solver, player_vars, wall_vars,
                   asset_vars, move_obs, tforce, collider, panicked, crash_obs,
                   reload_obs,
                   jump_obs>>

CollisionSpec == CollisionInit /\ [][DoApplyCollisions]_vars

\* some reported collision is with a platform and carries a normal along
\* the given axis
PlatformHitAlong(axis) ==
    \E i \in 1 .. Len(collide.collisions) :
        /\ collide.collisions[i].platform
        /\ IsSome(collide.collisions[i].details)
        /\ Unwrap(collide.collisions[i].details)[axis] # 0

\* C23: after the collision loop, own_velocity has lost its component along
\* the normal of every reported collision that is with a platform and
\* carries hit details: with axis-aligned unit normals, x is 0 if some such
\* normal is (1,0) or (-1,0) and is untouched otherwise, and the same for
\* y; collisions with other entities or without details change nothing.
C23_CollisionResponse ==
    collide.calls = 1 =>
        /\ collide.out.x = IF PlatformHitAlong("x") THEN 0 ELSE collide.own_velocity.x
        /\ collide.out.y = IF PlatformHitAlong("y") THEN 0 ELSE collide.own_velocity.y

\* C23 witness: own_velocity.x = -50 against a platform of normal (1,0),
\* reported after an entity that is no platform with normal (0,1): x is
\* arrested and a nonzero y is kept
C23_Witness ==
    /\ collide.calls = 1
    /\ collide.own_velocity = Vec2(-50, 2)
    /\ collide.collisions =
          <<[platform |-> FALSE, details |-> Some(Vec2(0, 1))],
            [platform |-> TRUE, details |-> Some(Vec2(1, 0))]>>
    /\ collide.out = Vec2(0, 2)

(***************************************************************************)
(* Specification ForceSpec: one TemporaryForce under tick() and            *)
(* reset(max), evaluated after every call against a linear decay curve of  *)
(* a fixed duration.                                                       *)
(***************************************************************************)
ForceCurve == [easing |-> "Linear", duration |-> tforce.duration]

\* peaks handed to reset
ForcePeaks == {Vec2(x, y) : x \in {-MaxForce, 0, MaxForce - 1}, y \in {0, 2}}

ForceSpecInit ==
    /\ CooldownIdle /\ FlagIdle /\ SensorsIdle /\ SolverIdle /\ PlayerIdle
    /\ WallIdle /\ AssetIdle
    /\ move_obs = MoveObsInit
    /\ collide = CollideInit(Vec2Zero, << >>)
    /\ collider = "Cuboid"
    /\ panicked = FALSE
    /\ crash_obs = CrashObsInit
    /\ reload_obs = ReloadObsInit
    /\ jump_obs = JumpObsInit
    /\ \E d \in 0 .. MaxForceDuration : tforce = ForceInit(d)

DoForceTick ==
    /\ tforce.calls < MaxForceCalls
    /\ LET f == TemporaryForceTick(tforce.force)
       IN  tforce' = [tforce EXCEPT !.force = f, !.before = tforce.force,
                                    !.op = "tick", !.arg = Vec2Zero,
                                    !.out = TemporaryForceEval(f, ForceCurve),
                                    !.calls = @ + 1]
    /\ UNCHANGED <<cd_vars, flag_vars, wall_sensors, solver, player_vars, wall_vars,
                   asset_vars, move_obs, collide, collider, panicked, crash_obs,
                   reload_obs,
                   jump_obs>>

DoForceReset ==
    /\ tforce.calls < MaxForceCalls
    /\ \E max \in ForcePeaks :
          LET f == TemporaryForceReset(tforce.force, max)
          IN  tforce' = [tforce EXCEPT !.force = f, !.before = tforce.force,
                                       !.op = "reset", !.arg = max,
                                       !.out = TemporaryForceEval(f, ForceCurve),
                                       !.calls = @ + 1]
    /\ UNCHANGED <<cd_vars, flag_vars, wall_sensors, solver, player_vars, wall_vars,
                   asset_vars, move_obs, collide, collider, panicked, crash_obs,
                   reload_obs,
                   jump_obs>>

ForceNext == DoForceTick \/ DoForceReset

ForceSpec == ForceSpecInit /\ [][ForceNext]_vars

\* C24: eval is the zero vector whenever age > duration or duration = 0;
\* at age 0 with duration > 0 it is the whole peak max (the linear curve
\* from 1.0 to 0.0 is 1.0 at t = 0); tick() raises age by exactly one and
\* leaves max alone; reset(max) stores the peak and sets age to 0.
C24_TemporaryForce ==
    tforce.calls > 0 =>
        /\ (tforce.force.age > tforce.duration \/ tforce.duration = 0)
              => tforce.out = Vec2Zero
        /\ (tforce.force.age = 0 /\ tforce.duration > 0)
              => tforce.out = tforce.force.max
        /\ tforce.op = "tick" =>
              /\ tforce.force.age = tforce.before.age + 1
              /\ tforce.force.max = tforce.before.max
        /\ tforce.op = "reset" =>
              /\ tforce.force.age = 0
              /\ tforce.force.max = tforce.arg

\* C24 witness: a nonzero peak on a curve of duration 1 has just expired
\* on its second tick
C24_Witness ==
    /\ tforce.duration = 1
    /\ tforce.op = "tick"
    /\ tforce.force.age = 2
    /\ tforce.force.max.x # 0
    /\ tforce.out = Vec2Zero

(***************************************************************************)
(* Specification WallMoveSpec: player_system ticking one player on and     *)
(* off a wall on its right, under parameters that differ in gravity and in *)
(* the slide numbers. No collision is reported.                            *)
(***************************************************************************)
\* a heavy player on a slow slide
SteepParams ==
    [BaseParams EXCEPT !.gravity = -3,
                       !.wall_control_params.slide_max_speed = 1,
                       !.wall_control_params.slide_acceleration = 2]

\* no gravity, and a slide that does not move
WeightlessParams ==
    [BaseParams EXCEPT !.gravity = 0,
                       !.wall_control_params.slide_max_speed = 0]

\* a light player on a fast slide
GentleParams ==
    [BaseParams EXCEPT !.gravity = -1, !.jump_speed = 3,
                       !.wall_control_params.slide_max_speed = 3]

WallMoveParamChoices == {BaseParams, SteepParams, WeightlessParams, GentleParams}

\* what a tick reads: the jump key, the grounded report, one horizontal key
\* or none, open space or a wall on the right
WallMoveTickInputs ==
    {in \in WallJumpTickInputs :
        in.rays \in {RaysOf(NoHits, NoHits), RaysOf(NoHits, WallHits)}}

WallMoveInit ==
    /\ CooldownIdle /\ FlagIdle /\ SensorsIdle /\ SolverIdle /\ WallIdle
    /\ AssetIdle
    /\ player = PlayerControlStateDefault
    /\ params \in WallMoveParamChoices
    /\ obs = ObsInit
    /\ wj_obs = WjObsInit
    /\ move_obs = MoveObsInit
    /\ collide = CollideInit(Vec2Zero, << >>)
    /\ tforce = ForceInit(0)
    /\ collider = "Cuboid"
    /\ panicked = FALSE
    /\ crash_obs = CrashObsInit
    /\ reload_obs = ReloadObsInit
    /\ jump_obs = JumpObsInit

WallMoveTick ==
    /\ move_obs.now < MaxMoveTicks
    /\ \E in \in WallMoveTickInputs :
          LET r == PlayerSystem(player, wall_sensors, params, in)
          IN  /\ player' = r.player
              /\ wall_sensors' = r.wall_sensors
              /\ move_obs' = [now |-> move_obs.now + 1,
                              vy |-> player.own_velocity.y,
                              grounded |-> in.grounded,
                              player_wall_state |-> r.player_wall_state,
                              jump |-> r.jump]
    /\ UNCHANGED <<cd_vars, flag_vars, solver, params, obs, wj_obs, wall_vars,
                   asset_vars, collide, tforce, collider, panicked, crash_obs,
                   reload_obs,
                   jump_obs>>

WallMoveSpec == WallMoveInit /\ [][WallMoveTick]_vars

\* the latest tick ended with the given wall state
MoveKind(kind) ==
    /\ IsSome(move_obs.player_wall_state)
    /\ Unwrap(move_obs.player_wall_state).kind = kind

\* C28: at the end of every tick on which the wall state is Grabbed (such
\* a tick is ungrounded), own_velocity.y >= 0; when no jump fired it is
\* max(incoming y + gravity, 0): gravity takes an upward speed down to 0
\* and never below, and a fall is stopped.
C28_GrabNeverPullsDown ==
    MoveKind("Grabbed") =>
        /\ ~move_obs.grounded
        /\ player.own_velocity.y >= 0
        /\ move_obs.jump = "None" =>
              player.own_velocity.y = Max(move_obs.vy + params.gravity, 0)

\* C28 witness: a grabbing player rising slower than one tick of gravity
\* ends the tick at rest
C28_Witness ==
    /\ MoveKind("Grabbed")
    /\ move_obs.jump = "None"
    /\ move_obs.vy > 0
    /\ move_obs.vy + params.gravity < 0
    /\ player.own_velocity.y = 0

\* the latest tick ended Sliding and fired no jump
SlidWithoutJump ==
    /\ MoveKind("Sliding")
    /\ move_obs.jump = "None"

\* C29 as stated: on an ungrounded tick with wall state Sliding and an
\* incoming own_velocity.y >= 0, the vertical step sets own_velocity.y to
\* own_velocity.y + gravity.
C29_Original ==
    (SlidWithoutJump /\ move_obs.vy >= 0) =>
        player.own_velocity.y = move_obs.vy + params.gravity

\* C29 amended: on an ungrounded tick with wall state Sliding the vertical
\* step sets own_velocity.y to own_velocity.y + gravity when the incoming
\* own_velocity.y >= -gravity, to 0 when 0 < own_velocity.y < -gravity,
\* and otherwise (own_velocity.y <= 0 and below -gravity: falling, or
\* stationary under a nonzero gravity) to
\* max(own_velocity.y - slide_acceleration, -slide_max_speed).
C29_SlideThreeWays ==
    SlidWithoutJump =>
        LET vy == move_obs.vy
            wcp == params.wall_control_params
        IN  /\ ~move_obs.grounded
            /\ vy >= -params.gravity =>
                  player.own_velocity.y = vy + params.gravity
            /\ (0 < vy /\ vy < -params.gravity) => player.own_velocity.y = 0
            /\ (vy <= 0 /\ vy < -params.gravity) =>
                  player.own_velocity.y =
                      Max(vy - wcp.slide_acceleration, -wcp.slide_max_speed)

\* C29 witness: a sliding player at rest under a nonzero gravity starts
\* down the wall by slide_acceleration, capped, not by gravity
C29_Witness ==
    /\ SlidWithoutJump
    /\ move_obs.vy = 0
    /\ params.gravity < 0
    /\ player.own_velocity.y = -1
    /\ player.own_velocity.y # params.gravity

\* C30: at the end of every tick on which the wall state is Sliding and no
\* jump fires, own_velocity.y >= -slide_max_speed, whatever the incoming
\* vertical velocity was: a player arriving faster than the cap is clamped
\* to it on the first Sliding tick.
C30_SlideDescentCap ==
    SlidWithoutJump =>
        /\ player.own_velocity.y >= -params.wall_control_params.slide_max_speed
        /\ move_obs.vy < -params.wall_control_params.slide_max_speed =>
              player.own_velocity.y = -params.wall_control_params.slide_max_speed

\* C30 witness: a player falling faster than the cap attaches through its
\* momentum and ends its first Sliding tick at the cap
C30_Witness ==
    /\ SlidWithoutJump
    /\ move_obs.vy < -params.wall_control_params.slide_max_speed
    /\ player.own_velocity.y = -params.wall_control_params.slide_max_speed
    /\ params.wall_control_params.slide_max_speed > 0

(***************************************************************************)
(* Specification ClimbSpec: player_system ticking one player on and off a  *)
(* ledge on its left. No collision is reported.                            *)
(***************************************************************************)
\* what a tick reads: the jump key, the grounded report, Left, Up or no
\* key, open space or a ledge on the left
ClimbTickInputs ==
    {[jump_pressed |-> jp, grounded |-> g,
      left |-> k.left, right |-> FALSE, up |-> k.up, down |-> FALSE,
      collisions |-> << >>, rays |-> rays] :
        jp \in BOOLEAN, g \in BOOLEAN,
        k \in {h \in HeldKeys : ~h.right /\ ~h.down},
        rays \in {RaysOf(NoHits, NoHits), RaysOf(LedgeHits, NoHits)}}

ClimbInit ==
    /\ CooldownIdle /\ FlagIdle /\ SensorsIdle /\ SolverIdle /\ WallIdle
    /\ AssetIdle /\ MoreIdle
    /\ player = PlayerControlStateDefault
    /\ params \in {BaseParams,
                    \* a ledge climbed faster than BaseParams allows
                    [BaseParams EXCEPT !.wall_control_params.climb_max_speed = 3]}
    /\ obs = ObsInit
    /\ wj_obs = WjObsInit

ClimbTick ==
    /\ move_obs.now < MaxClimbTicks
    /\ \E in \in ClimbTickInputs :
          LET r == PlayerSystem(player, wall_sensors, params, in)
          IN  /\ player' = r.player
              /\ wall_sensors' = r.wall_sensors
              /\ move_obs' = [now |-> move_obs.now + 1,
                              vy |-> player.own_velocity.y,
                              grounded |-> in.grounded,
                              player_wall_state |-> r.player_wall_state,
                              jump |-> r.jump]
    /\ UNCHANGED <<cd_vars, flag_vars, solver, params, obs, wj_obs, wall_vars,
                   asset_vars, collide, tforce, collider, panicked, crash_obs,
                   reload_obs,
                   jump_obs>>

ClimbSpec == ClimbInit /\ [][ClimbTick]_vars

\* the latest tick ended Climbing and fired no jump
ClimbedWithoutJump ==
    /\ MoveKind("Climbing")
    /\ move_obs.jump = "None"

\* C31: on a Climbing tick with incoming own_velocity.y >= climb_max_speed
\* gravity takes the speed down to climb_max_speed and never below it, and
\* with incoming own_velocity.y < climb_max_speed the speed ends at most at
\* climb_max_speed; so a climb that has reached climb_max_speed stays at it.
C31_Original ==
    ClimbedWithoutJump =>
        LET climb_max == params.wall_control_params.climb_max_speed
        IN  /\ move_obs.vy >= climb_max => player.own_velocity.y >= climb_max
            /\ move_obs.vy < climb_max => player.own_velocity.y <= climb_max
            /\ move_obs.vy = climb_max => player.own_velocity.y = climb_max

(***************************************************************************)
(* Specification JumpSpec: player_system ticking one player on the ground, *)
(* in the air and beside a wall on its right, with presses, jumps and      *)
(* airborne ticks counted, under parameters that differ in the coyote      *)
(* time, the input buffer, the jump cooldown and the number of jumps.      *)
(***************************************************************************)
\* a long coyote time and buffer, and a cooldown of one tick
LongCoyoteParams ==
    [BaseParams EXCEPT !.coyote_time = 2, !.jump_input_buffer = 2,
                       !.jump_cooldown = 1]

\* a double jump behind a cooldown longer than the buffer window
SpacedParams ==
    [BaseParams EXCEPT !.max_jumps = 2, !.jump_input_buffer = 1,
                       !.jump_cooldown = 3, !.coyote_time = 0]

JumpObserve(o, p, r, in) ==
    LET air == IF in.grounded THEN 0 ELSE Min(o.air_ticks + 1, Never)
    IN  [now |-> o.now + 1,
         presses |-> o.presses + (IF in.jump_pressed THEN 1 ELSE 0),
         jumps |-> o.jumps + (IF r.jump # "None" THEN 1 ELSE 0),
         since_jump |-> IF r.jump # "None" THEN 0
                        ELSE IF o.since_jump = Never THEN Never
                        ELSE o.since_jump + 1,
         last_gap |-> IF r.jump = "None" THEN o.last_gap
                      ELSE IF o.since_jump = Never THEN Never
                      ELSE o.since_jump + 1,
         since_press |-> IF in.jump_pressed THEN 0
                         ELSE IF o.since_press = Never THEN Never
                         ELSE o.since_press + 1,
         air_ticks |-> air,
         ever_grounded |-> o.ever_grounded \/ in.grounded,
         was_jumping |-> p.jumping,
         grounded |-> in.grounded,
         wants_to_jump |-> r.wants_to_jump,
         cooldown_ready |-> r.cooldown_ready,
         jump |-> r.jump,
         player_wall_state |-> r.player_wall_state,
         was_grounded |-> o.grounded,
         press_unmet |-> IF in.jump_pressed
                         THEN /\ ~in.grounded /\ r.jump = "None"
                              /\ r.player_wall_state = None
                              /\ r.jumps_before_jump = 0
                         ELSE o.press_unmet,
         jump_pressed |-> in.jump_pressed]

JumpInit ==
    /\ CooldownIdle /\ FlagIdle /\ SensorsIdle /\ SolverIdle /\ WallIdle
    /\ AssetIdle /\ MoreIdle
    /\ player = PlayerControlStateDefault
    /\ params \in {BaseParams, DoubleJumpParams, LongCoyoteParams, SpacedParams}
    /\ obs = ObsInit
    /\ wj_obs = WjObsInit

JumpTick ==
    /\ jump_obs.now < MaxJumpTicks
    /\ \E in \in AssetTickInputs :
          LET r == PlayerSystem(player, wall_sensors, params, in)
              o == JumpObserve(jump_obs, player, r, in)
          IN  /\ player' = r.player
              /\ wall_sensors' = r.wall_sensors
              /\ jump_obs' = o
    /\ UNCHANGED <<cd_vars, flag_vars, solver, params, obs, wj_obs, wall_vars,
                   asset_vars, move_obs, collide, tforce, collider, panicked,
                   crash_obs, reload_obs>>

JumpSpec == JumpInit /\ [][JumpTick]_vars

\* the latest tick is the first grounded one after an airborne press that
\* no jump answered, and the press is still inside the buffer window
LandedOnBufferedPress ==
    /\ jump_obs.grounded /\ ~jump_obs.was_grounded
    /\ ~jump_obs.jump_pressed
    /\ jump_obs.press_unmet
    /\ jump_obs.since_press >= 1
    /\ jump_obs.since_press <= params.jump_input_buffer
    /\ jump_obs.cooldown_ready
    /\ params.max_jumps >= 1

\* C32: a jump press on an airborne tick with no jump available (no wall
\* engaged, jumps_remaining 0) is remembered: when the player becomes grounded
\* at most jump_input_buffer ticks later with the jump cooldown ready and
\* max_jumps >= 1, a normal jump fires on that first grounded tick without a
\* new press.
C32_BufferedJumpOnLanding ==
    LandedOnBufferedPress => jump_obs.jump = "Normal"

C32_Witness ==
    /\ LandedOnBufferedPress
    /\ jump_obs.jump = "Normal"
    /\ player.jumping
    /\ player.own_velocity.y = params.jump_speed

\* the latest tick is ungrounded tick k of an episode that began on the
\* ground, k within the coyote time, no jump fired since the ground, the
\* jump key just pressed, the cooldown ready and no wall engaged
PressedInCoyoteTime ==
    /\ jump_obs.ever_grounded /\ ~jump_obs.grounded
    /\ jump_obs.air_ticks >= 1
    /\ jump_obs.air_ticks <= params.coyote_time
    /\ ~jump_obs.was_jumping
    /\ jump_obs.jump_pressed
    /\ jump_obs.cooldown_ready
    /\ jump_obs.player_wall_state = None
    /\ params.max_jumps >= 1

\* C33: after a grounded tick T with max_jumps >= 1 and no jump fired, on
\* ungrounded tick T+k with 1 <= k <= coyote_time a jump press with the
\* cooldown ready and no wall engaged fires a normal jump as a grounded press
\* would: own_velocity.y = jump_speed and jumps_remaining = max_jumps - 1.
C33_CoyoteJump ==
    PressedInCoyoteTime =>
        /\ jump_obs.jump = "Normal"
        /\ player.own_velocity.y = params.jump_speed
        /\ player.jumps_remaining = params.max_jumps - 1

C33_Witness ==
    /\ PressedInCoyoteTime
    /\ jump_obs.air_ticks = 2
    /\ jump_obs.jump = "Normal"
    /\ player.jumps_remaining = params.max_jumps - 1

\* what the wall-jump force added to the final velocity of the latest tick:
\* previous_total_velocity = own_velocity + wall_jump_force (system.rs:276-278)
WallJumpForceContribution ==
    Vec2(player.previous_total_velocity.x - player.own_velocity.x,
         player.previous_total_velocity.y - player.own_velocity.y)

\* C34: the wall-jump force adds the zero vector to the final velocity on
\* every tick before the first wall jump, and on every tick later than
\* T + duration after a wall jump on tick T (until the next wall jump); it
\* never adds a vertical component.
C34_WallJumpForceLifetime ==
    /\ wj_obs.since_wall_jump = Never => WallJumpForceContribution = Vec2Zero
    /\ (wj_obs.since_wall_jump # Never
          /\ wj_obs.since_wall_jump > params.wall_jump_force_decay.duration)
         => WallJumpForceContribution = Vec2Zero
    /\ WallJumpForceContribution.y = 0

C34_Witness ==
    /\ wj_obs.since_wall_jump # Never
    /\ wj_obs.since_wall_jump > params.wall_jump_force_decay.duration
    /\ player.wall_jump_force.max # Vec2Zero
    /\ player.own_velocity # Vec2Zero
    /\ WallJumpForceContribution = Vec2Zero

\* C35 as stated: for every parameter setting, the jumps fired up to any tick
\* are at most the ticks on which the jump key was just pressed up to then.
C35_Original ==
    jump_obs.jumps <= jump_obs.presses

\* the jump cooldown outlasts the window in which a press is remembered:
\* d ticks after a press was_set_within holds for d <= jump_input_buffer + 1
CooldownOutlastsBuffer ==
    params.jump_cooldown > params.jump_input_buffer + 1

\* C35 (amended): for every parameter setting with jump_cooldown >
\* jump_input_buffer + 1, the jumps (normal plus wall) fired up to any tick
\* are at most the ticks on which the jump key was just pressed up to then.
C35_OnePressOneJump ==
    CooldownOutlastsBuffer => jump_obs.jumps <= jump_obs.presses

C35_Witness ==
    /\ CooldownOutlastsBuffer
    /\ jump_obs.jumps = 2
    /\ jump_obs.presses = 2
    /\ jump_obs.jump # "None"

\* the grounded flag has been unset for more than coyote_time + 1 ticks in a row
LongAirborne ==
    /\ ~jump_obs.grounded
    /\ jump_obs.air_ticks > params.coyote_time + 1
    /\ params.max_jumps >= 1

\* C36: with max_jumps >= 1, whenever the grounded flag has been unset for
\* more than coyote_time + 1 consecutive ticks, jumps_remaining <=
\* max_jumps - 1, on every path, those through wall attachment and wall jumps
\* included; so with max_jumps = 1 no normal jump fires that late in an
\* airborne episode.
C36_Original ==
    LongAirborne =>
        /\ player.jumps_remaining <= params.max_jumps - 1
        /\ (params.max_jumps = 1 /\ jump_obs.air_ticks > params.coyote_time + 2)
             => jump_obs.jump # "Normal"

\* C37: any two ticks on which a jump (normal or wall) fires are at least
\* jump_cooldown ticks apart, for every jump_cooldown >= 1 and every input
\* sequence; no jump fires while the jump cooldown is not ready.
C37_JumpSpacing ==
    /\ (params.jump_cooldown >= 1 /\ jump_obs.last_gap # Never)
         => jump_obs.last_gap >= params.jump_cooldown
    /\ jump_obs.jump # "None" => jump_obs.cooldown_ready

C37_Witness ==
    /\ params.jump_cooldown = 3
    /\ jump_obs.jump # "None"
    /\ jump_obs.jumps = 2
    /\ jump_obs.last_gap = params.jump_cooldown

\* C38: from the default PlayerControlState (jumps_remaining = 0, grounded
\* flag never set) no normal jump fires on any tick before the first tick on
\* which the controller reports grounded, whatever the jump input; only a
\* wall jump can fire in that period.
C38_NoNormalJumpBeforeGround ==
    ~jump_obs.ever_grounded =>
        /\ jump_obs.jump # "Normal"
        /\ player.jumps_remaining = 0

C38_Witness ==
    /\ ~jump_obs.ever_grounded
    /\ jump_obs.now >= 2
    /\ jump_obs.presses >= 2
    /\ jump_obs.jump = "Wall"
    /\ jump_obs.jumps = 1

====
